---- MODULE Spec2Model ----
(***************************************************************************)
(* Balance-consistency and recalculation engine of the finance manager:    *)
(* finance/logic/fincalc.py (Calculator), finance/logic/updaters.py        *)
(* (Updater), finance/logic/convert_currency.py and the services that      *)
(* drive them (finance/services/transaction_services.py,                   *)
(* finance/services/source_services.py).                                   *)
(*                                                                         *)
(* Conventions of the model.                                               *)
(*  - Money is an integer number of cents (DecimalField, 2 decimals).      *)
(*    An unrounded Decimal is an integer number of 1/Scale cents, so the   *)
(*    sums the Calculator takes before its single quantize are exact.      *)
(*  - A service is one atomic action (@transaction.atomic): when a step    *)
(*    raises, every write of the action is rolled back.                    *)
(*  - The model follows the data flow of the calls.  Where a call site     *)
(*    passes an argument list the callee's signature does not take, the    *)
(*    model binds the arguments the callee reads.                          *)
(*  - The services call the Updater through module-level names             *)
(*    (update.new_transaction(uid, tx), update.transaction_updated(...));  *)
(*    the model resolves such a call to the Updater method of that name,   *)
(*    built over the queryset holding the transaction that was passed.     *)
(*  - A queryset is lazy: it is a set of entry ids and every read goes     *)
(*    to the current rows.                                                 *)
(*  - The services, the Updater and the validators read tx.bill, which    *)
(*    the Transaction model does not declare; the model follows the data   *)
(*    flow and lets a transaction row carry the name of its expense.       *)
(*  - Requests of one profile that overlap (SpecConcurrent) read the rows  *)
(*    as committed when they began; the store's row locks order their      *)
(*    writes, and the later commit's value stays.                          *)
(***************************************************************************)
EXTENDS Integers, Sequences, FiniteSets, TLC

\* Number of rows the Transaction table's AutoField entry_id may hand out.
MaxTx == 2

\* Number of service calls a behaviour completes.  Balances drift by a
\* cent at a time under repeated updates, so the calls are counted.
MaxCalls == 3

----
\* Reference data

Currencies == {"USD", "EUR"}

\* exchange_rates table of the CurrencyConverter: units of a currency per
\* unit of the reference currency, times 4 (1 EUR = 1.25 USD).
Rate(code) == IF code = "EUR" THEN 4 ELSE 5

\* Codes that pycountry knows (_validate_currency accepts them): the
\* currencies of the exchange_rates table and one that has no rate.
IsoCurrencies == Currencies \cup {"XAU"}

\* Denominator of unrounded amounts: every Rate divides it.
Scale == Rate("EUR") * Rate("USD")

TxTypes == {"EXPENSE", "INCOME", "XFER_OUT", "XFER_IN"}

AccTypes == {"SAVINGS", "CHECKING", "CASH", "INVESTMENT", "EWALLET", "UNKNOWN"}

\* Columns of FinancialSnapshot.
SnapshotFields ==
    {"total_assets", "safe_to_spend", "total_savings", "total_checking",
     "total_investment", "total_cash", "total_ewallet",
     "total_monthly_spending", "total_remaining_expenses", "total_leaks"}

\* f'total_{acc_type.lower()}'
TotalField(acc_type) ==
    CASE acc_type = "SAVINGS" -> "total_savings"
      [] acc_type = "CHECKING" -> "total_checking"
      [] acc_type = "CASH" -> "total_cash"
      [] acc_type = "INVESTMENT" -> "total_investment"
      [] acc_type = "EWALLET" -> "total_ewallet"
      [] OTHER -> "total_unknown"

\* Dates are month * 100 + day.
MkDate(m, d) == m * 100 + d

\* A DateField that holds NULL.
NoDate == 0

\* timezone.now().date()
Today == MkDate(3, 5)

\* today.replace(day=1)
FirstOfMonth(d) == MkDate(d \div 100, 1)

NoTx == [source |-> "none"]

SourceNames == {"cash", "bank", "unknown"}

\* PaymentSource.AccType.choices: (value, label) pairs.
AccTypeChoices ==
    {<<"SAVINGS", "Savings">>, <<"CHECKING", "Checking">>,
     <<"CASH", "Cash">>, <<"INVESTMENT", "Investment">>,
     <<"EWALLET", "Mobile Wallet">>}

----
\* Inputs the callers may send

AmountInputs == {-3, 5}

DateInputs == {Today}

TxIds == 1 .. MaxTx

BillInputs == {"none"}

\* Names a source that does not exist yet may be given.
NewSourceNames == {"wallet"}

\* Payload of the planned-expense requests.
\* Transaction payloads in a currency with a rate and in one without; a
\* bulk request carries BulkLen of them.
AtomicTxData ==
    [source : {"cash"}, amount : {5}, currency : {"USD", "XAU"},
     tx_type : {"EXPENSE", "XFER_OUT"}, date : {MkDate(3, 5)},
     bill : {"none", "rent"}]

BulkLen == 2

\* Payloads of the posts that run concurrently.
ConcTxData ==
    [source : {"cash", "bank"}, amount : {5}, currency : {"USD"},
     tx_type : {"INCOME", "EXPENSE", "XFER_OUT"}, date : {MkDate(3, 5)},
     bill : {"none"}]

\* Items of a bulk post spread over the accounts.
BulkTxData ==
    [source : {"cash", "bank"}, amount : {3, 5}, currency : {"USD", "EUR"},
     tx_type : {"INCOME", "EXPENSE"}, date : {MkDate(3, 5)},
     bill : {"none"}]

\* Bodies of POST transactions/ that pass TransactionSerializer: a
\* source the profile holds or not, a code pycountry knows or not, a
\* type of Transaction.TxType or another string of at most 10
\* characters, tx_id and entry_id given or not.
PostViewData ==
    [source : {"cash", "ghost"}, amount : {5}, currency : {"USD", "ZZZ"},
     tx_type : {"EXPENSE", "REFUND"}, date : {MkDate(3, 5)},
     bill : {"none"}, tx_id : {"none", "given"},
     entry_id : {"none", "given"}]

\* Arguments of user_update_base_currency: the dict the view builds
\* ({'code': ...}) or one with the key in upper case.
BaseCurrencyData == [key : {"code", "CODE"}, value : Currencies]

\* Arguments of user_update_spend_accounts.
SpendAccountsData == [kind : {"list", "dict"}, items : SUBSET {"cash", "bank"}]

\* Items of a list given to add_transaction of which the validator
\* rejects some: a source the profile does not hold, a code pycountry
\* does not know, a date after today.
MixedTxData ==
    [source : {"cash", "ghost"}, amount : {3},
     currency : {"USD", "ZZZ"}, tx_type : {"EXPENSE"},
     date : {MkDate(3, 5), MkDate(3, 9)}, bill : {"none"}]

\* Bodies of the source requests that aim at the reserved account: its
\* name or its type as the new value, or nothing of the two.
ReservedSourceData ==
    [source : {"none", "unknown"}, acc_type : {"none", "UNKNOWN", "CHECKING"}]

\* Amounts, in cents, handed to convert_currency.
ConvertAmounts == -4 .. 4

ExpenseData ==
    [name : {"gym", "lease"}, estimated_cost : {3}, currency : {"USD"},
     due_date : {MkDate(3, 5)}, end_date : {NoDate, MkDate(3, 1)},
     is_recurring : BOOLEAN, paid_flag : {FALSE}, status : {"ACTIVE"}]

\* Payload of the source requests; "none" is a key the payload leaves out.
SourceData ==
    [source : SourceNames \cup NewSourceNames,
     acc_type : {"CHECKING", "EWALLET", "none"}]

TxData ==
    [source : SourceNames, amount : AmountInputs, currency : Currencies,
     tx_type : TxTypes, date : DateInputs, bill : BillInputs]

----
VARIABLES
    profile,        \* AppProfile: base_currency, spend_accounts
    sources,        \* PaymentSource rows: source name -> acc_type
    assets,         \* CurrentAsset rows: source name -> [amount, currency]
    transactions,   \* Transaction rows: entry id -> row, or NoTx
    next_entry_id,  \* next value of the entry_id AutoField
    upcoming,       \* UpcomingExpense rows: set of records
    snapshot,       \* FinancialSnapshot row: field -> cents
    calls,          \* bookkeeping: number of service calls completed
    lastOp,         \* bookkeeping: the last service call and what it did
    inflight        \* concurrent requests: request -> its atomic block

vars == <<profile, sources, assets, transactions, next_entry_id, upcoming,
          snapshot, calls, lastOp, inflight>>

----
\* Arithmetic helpers

AbsVal(x) == IF x < 0 THEN -x ELSE x

RECURSIVE SumFn(_, _)
\* Python's sum(map(f, S)), and SQL's Sum() over a group.
SumFn(f, S) ==
    IF S = {} THEN 0
    ELSE LET x == CHOOSE y \in S : TRUE
         IN f[x] + SumFn(f, S \ {x})

\* Decimal.quantize(Decimal("0.01")) of n / Scale cents, n >= 0, under the
\* default context rounding ROUND_HALF_EVEN.
QuantizeAbs(n) ==
    LET q == n \div Scale
        r == n % Scale
    IN IF 2 * r > Scale THEN q + 1
       ELSE IF 2 * r < Scale THEN q
       ELSE IF q % 2 = 0 THEN q ELSE q + 1

Quantize(n) == IF n < 0 THEN -QuantizeAbs(-n) ELSE QuantizeAbs(n)

----
\* finance/logic/convert_currency.py

\* convert_currency(amount, from_currency, to_currency): amount in cents,
\* result in 1/Scale cents (a Decimal that is not rounded).  The
\* CurrencyConverter computes amount / rate(from) * rate(to).
convert_currency(amount, from_currency, to_currency) ==
    IF from_currency = to_currency THEN amount * Scale
    ELSE (amount * (Scale \div Rate(from_currency))) * Rate(to_currency)

\* Variant of converts in which equal currencies go to the table too.
converts_table_only(from_currency, to_currency) ==
    {from_currency, to_currency} \subseteq Currencies

\* TRUE when convert_currency returns: CurrencyConverter.convert raises
\* ValueError for a currency the exchange_rates table does not hold.
converts(from_currency, to_currency) ==
    \/ from_currency = to_currency
    \/ {from_currency, to_currency} \subseteq Currencies

----
\* finance/management/managers.py

\* date__range=[first_of_month, today]
InCurrentMonth(d) == FirstOfMonth(Today) <= d /\ d <= Today

\* TransactionManager.get_current_month over the rows tx
get_current_month(tx) ==
    {i \in DOMAIN tx : tx[i] # NoTx /\ InCurrentMonth(tx[i].date)}

\* TransactionManager.get_by_tx_type
get_by_tx_type(tx, ids, tx_type) == {i \in ids : tx[i].tx_type = tx_type}

\* UpcomingExpenseManager.get_current_month
upcoming_current_month(up) ==
    {n \in DOMAIN up : InCurrentMonth(up[n].due_date)}

\* AppProfileManager.get_spend_accounts: the spend accounts' source names
get_spend_accounts(prof) == prof.spend_accounts

\* CurrentAssetManager.get_by_type(*args): source__acc_type__in=args
get_by_type(src, ast, args) == {s \in DOMAIN ast : src[s] \in args}

----
\* finance/logic/fincalc.py (Calculator)

\* Variant of _calc_totals that rounds each group's subtotal.
calc_totals_rounded(item_currency, base_currency, amount) ==
    IF item_currency # base_currency
    THEN Quantize(convert_currency(amount, item_currency, base_currency))
         * Scale
    ELSE amount * Scale

\* Calculator._calc_totals: one currency group's subtotal in the base
\* currency, not rounded.
calc_totals(item_currency, base_currency, amount) ==
    IF item_currency # base_currency
    THEN convert_currency(amount, item_currency, base_currency)
    ELSE amount * Scale

\* values("currency__code").annotate(total=Sum(...)) followed by
\* sum(map(_calc_totals, ...)): amt and cur are functions over the rows S.
SumByCurrency(amt, cur, S, base_currency) ==
    LET codes == {cur[x] : x \in S}
        total == [c \in codes |-> SumFn(amt, {x \in S : cur[x] = c})]
        conv == [c \in codes |-> calc_totals(c, base_currency, total[c])]
    IN SumFn(conv, codes)

\* TRUE when every _calc_totals of the groups of the rows S returns.
TotalsConvert(cur, S, base_currency) ==
    \A x \in S : converts(cur[x], base_currency)

TxAmount(tx) == [i \in DOMAIN tx |-> IF tx[i] = NoTx THEN 0 ELSE tx[i].amount]

TxCurrency(tx) ==
    [i \in DOMAIN tx |-> IF tx[i] = NoTx THEN "USD" ELSE tx[i].currency]

AssetAmount(ast) == [s \in DOMAIN ast |-> ast[s].amount]

AssetCurrency(ast) == [s \in DOMAIN ast |-> ast[s].currency]

\* Calculator.calc_sts
calc_sts(db) ==
    LET base == db.profile.base_currency
        spendable == get_by_type(db.sources, db.assets,
                                 get_spend_accounts(db.profile))
        debts == upcoming_current_month(db.upcoming)
        spend == SumByCurrency(AssetAmount(db.assets),
                               AssetCurrency(db.assets), spendable, base)
        debt == SumByCurrency([n \in DOMAIN db.upcoming |->
                                   db.upcoming[n].estimated_cost],
                              [n \in DOMAIN db.upcoming |->
                                   db.upcoming[n].currency], debts, base)
    IN Quantize(spend - debt)

\* Calculator.calc_leaks: over the current month's transactions
calc_leaks(db) ==
    LET base == db.profile.base_currency
        month == get_current_month(db.transactions)
        xfers_in == get_by_tx_type(db.transactions, month, "XFER_IN")
        xfers_out == get_by_tx_type(db.transactions, month, "XFER_OUT")
        xfer_in_total == SumByCurrency(TxAmount(db.transactions),
                             TxCurrency(db.transactions), xfers_in, base)
        xfer_out_total == SumByCurrency(TxAmount(db.transactions),
                              TxCurrency(db.transactions), xfers_out, base)
    IN Quantize(xfer_in_total - xfer_out_total)

\* Calculator.calc_queryset: the queryset's total in the base currency
calc_queryset(db, queryset) ==
    Quantize(SumByCurrency(TxAmount(db.transactions),
                           TxCurrency(db.transactions), queryset,
                           db.profile.base_currency))

\* Calculator.calc_new_balance: amount is in the base currency
calc_new_balance(db, source, amount) ==
    LET old_balance == db.assets[source].amount
        asset_currency == db.assets[source].currency
        currency == db.profile.base_currency
        converted == IF currency # asset_currency
                     THEN convert_currency(amount, currency, asset_currency)
                     ELSE amount * Scale
    IN Quantize(old_balance * Scale + converted)

\* Variant of calc_total_assets that keeps the UNKNOWN accounts.
calc_total_assets_all(db) ==
    Quantize(SumByCurrency(AssetAmount(db.assets),
                           AssetCurrency(db.assets), DOMAIN db.assets,
                           db.profile.base_currency))

\* Calculator.calc_total_assets
calc_total_assets(db) ==
    LET kept == {s \in DOMAIN db.assets : db.sources[s] # "UNKNOWN"}
    IN Quantize(SumByCurrency(AssetAmount(db.assets),
                              AssetCurrency(db.assets), kept,
                              db.profile.base_currency))

\* Calculator.calc_asset_type
calc_asset_type(db, acc_type) ==
    LET asset == {s \in DOMAIN db.assets : db.sources[s] = acc_type}
    IN Quantize(SumByCurrency(AssetAmount(db.assets),
                              AssetCurrency(db.assets), asset,
                              db.profile.base_currency))

----
\* finance/logic/updaters.py (Updater)
\*
\* db is the database inside the running atomic block: the tables, ok
\* (FALSE once a step has raised) and writes, the Snapshot columns written
\* so far, one sequence per rebalance call, each entry the set of columns
\* one snapshots.update() statement wrote.

\* date + relativedelta(months=k); model dates stay inside one year and
\* their days exist in every month.
AddMonths(d, k) == d + 100 * k

Raise(db) == [db EXCEPT !.ok = FALSE]

\* snapshots.update(**to_update): one statement; a keyword that is not a
\* column of FinancialSnapshot raises FieldDoesNotExist.
snapshots_update(db, to_update) ==
    IF ~db.ok THEN db
    ELSE IF ~(DOMAIN to_update \subseteq SnapshotFields) THEN Raise(db)
    ELSE [db EXCEPT
            !.snapshot = [f \in SnapshotFields |->
                            IF f \in DOMAIN to_update THEN to_update[f]
                            ELSE db.snapshot[f]],
            !.writes = [db.writes EXCEPT ![Len(db.writes)] =
                            Append(db.writes[Len(db.writes)],
                                   DOMAIN to_update)]]

\* Updater.fix_tx_data: the stored amount carries the sign of the type.
fix_tx_data(item) ==
    [item EXCEPT !.amount =
        IF item.tx_type \in {"EXPENSE", "XFER_OUT"}
        THEN -AbsVal(item.amount) ELSE AbsVal(item.amount)]

\* TRUE when calc_sts returns.
sts_converts(db) ==
    /\ TotalsConvert(AssetCurrency(db.assets),
                     get_by_type(db.sources, db.assets,
                                 get_spend_accounts(db.profile)),
                     db.profile.base_currency)
    /\ TotalsConvert([n \in DOMAIN db.upcoming |-> db.upcoming[n].currency],
                     upcoming_current_month(db.upcoming),
                     db.profile.base_currency)

\* TRUE when calc_leaks returns.
leaks_convert(db) ==
    LET month == get_current_month(db.transactions)
    IN TotalsConvert(TxCurrency(db.transactions),
                     get_by_tx_type(db.transactions, month, "XFER_IN")
                     \cup get_by_tx_type(db.transactions, month,
                                         "XFER_OUT"),
                     db.profile.base_currency)

\* TRUE when calc_total_assets and calc_asset_type return.
assets_convert(db) ==
    TotalsConvert(AssetCurrency(db.assets), DOMAIN db.assets,
                  db.profile.base_currency)

\* Updater._recalc_sts
recalc_sts(db) ==
    IF ~db.ok THEN db
    ELSE IF ~sts_converts(db) THEN Raise(db)
    ELSE snapshots_update(db, [f \in {"safe_to_spend"} |-> calc_sts(db)])

\* Updater._recalc_total_assets
recalc_total_assets(db) ==
    IF ~db.ok THEN db
    ELSE IF ~assets_convert(db) THEN Raise(db)
    ELSE snapshots_update(db, [f \in {"total_assets"} |->
                                  calc_total_assets(db)])

\* Updater._recalc_asset_type: the account types of the Updater's
\* transactions; an Updater built without transactions has no such
\* attribute and the call raises.
recalc_asset_type(db, txq) ==
    IF ~db.ok THEN db
    ELSE IF txq = {} THEN Raise(db)
    ELSE IF ~assets_convert(db) THEN Raise(db)
    ELSE LET affected_accs ==
                 {db.sources[db.transactions[i].source] : i \in txq}
             fields == {TotalField(t) : t \in affected_accs}
             to_update == [f \in fields |->
                 calc_asset_type(db, CHOOSE t \in affected_accs :
                                         TotalField(t) = f)]
         IN snapshots_update(db, to_update)

\* Variant of recalc_leaks that adds the month's leaks to the stored ones.
recalc_leaks_accumulate(db) ==
    IF ~db.ok THEN db
    ELSE snapshots_update(db, [f \in {"total_leaks"} |->
                                  db.snapshot["total_leaks"]
                                  + calc_leaks(db)])

\* Updater._recalc_leaks
recalc_leaks(db) ==
    IF ~db.ok THEN db
    ELSE IF ~leaks_convert(db) THEN Raise(db)
    ELSE snapshots_update(db, [f \in {"total_leaks"} |-> calc_leaks(db)])

\* Variant of rebalance that settles safe-to-spend first.
rebalance_sts_first(db, txq, acc_type, total_assets, leaks, sts) ==
    LET d0 == [db EXCEPT !.writes = Append(db.writes, <<>>)]
        d1 == IF sts THEN recalc_sts(d0) ELSE d0
        d2 == IF acc_type THEN recalc_asset_type(d1, txq) ELSE d1
        d3 == IF total_assets THEN recalc_total_assets(d2) ELSE d2
        d4 == IF leaks THEN recalc_leaks(d3) ELSE d3
    IN IF ~db.ok THEN db ELSE d4

\* Updater.rebalance(acc_type, total_assets, leaks, sts)
rebalance(db, txq, acc_type, total_assets, leaks, sts) ==
    LET d0 == [db EXCEPT !.writes = Append(db.writes, <<>>)]
        d1 == IF acc_type THEN recalc_asset_type(d0, txq) ELSE d0
        d2 == IF total_assets THEN recalc_total_assets(d1) ELSE d1
        d3 == IF leaks THEN recalc_leaks(d2) ELSE d2
        d4 == IF sts THEN recalc_sts(d3) ELSE d3
    IN IF ~db.ok THEN db ELSE d4

\* Updater._recalc_asset_amount: per affected source, the queryset's
\* total in the base currency is added to the source's CurrentAsset.
recalc_asset_amount(db, txq) ==
    LET affected_sources == {db.transactions[i].source : i \in txq}
        aggregate == [s \in affected_sources |->
            calc_queryset(db, {i \in txq : db.transactions[i].source = s})]
    IN IF ~db.ok THEN db
       ELSE IF ~(affected_sources \subseteq DOMAIN db.assets) THEN Raise(db)
       ELSE IF ~TotalsConvert(TxCurrency(db.transactions), txq,
                              db.profile.base_currency) THEN Raise(db)
       ELSE IF \E s \in affected_sources :
                 ~converts(db.profile.base_currency, db.assets[s].currency)
       THEN Raise(db)
       ELSE [db EXCEPT !.assets =
               [s \in DOMAIN db.assets |->
                  IF s \in affected_sources
                  THEN [db.assets[s] EXCEPT
                          !.amount = calc_new_balance(db, s, aggregate[s])]
                  ELSE db.assets[s]]]

\* UpcomingExpense.save: the recurrence guard, then the write.
expense_save(db, name, row) ==
    [db EXCEPT !.upcoming[name] =
        IF row.end_date # NoDate /\ Today > row.end_date
        THEN [row EXCEPT !.is_recurring = FALSE] ELSE row]

\* The payment transition on one expense row.
bill_paid(row) ==
    LET r1 == [row EXCEPT !.paid_flag = TRUE]
        r2 == IF r1.end_date # NoDate /\ Today >= r1.end_date
              THEN [r1 EXCEPT !.is_recurring = FALSE] ELSE r1
    IN IF r2.is_recurring
       THEN [r2 EXCEPT !.due_date = AddMonths(r2.due_date, 1)] ELSE r2

\* Updater._handle_upcoming: the unpaid expenses the Updater's
\* transactions are linked to; bulk_update does not call save().
handle_upcoming(db, txq) ==
    LET paid_bills == {n \in DOMAIN db.upcoming :
                          /\ ~db.upcoming[n].paid_flag
                          /\ \E i \in txq : db.transactions[i].bill = n}
    IN IF ~db.ok THEN db
       ELSE IF \E n \in paid_bills :
                 db.upcoming[n].is_recurring
                 /\ ~(db.upcoming[n].end_date # NoDate
                      /\ Today >= db.upcoming[n].end_date)
                 /\ db.upcoming[n].due_date = NoDate
       THEN Raise(db)
       ELSE [db EXCEPT !.upcoming =
               [n \in DOMAIN db.upcoming |->
                  IF n \in paid_bills THEN bill_paid(db.upcoming[n])
                  ELSE db.upcoming[n]]]

\* Variant of _updated_affected_upcomings that clears the paid flag and
\* leaves the due date where it is.
updated_affected_upcomings_keep_due(db, i) ==
    LET tx == db.transactions[i]
        bill == db.upcoming[tx.bill]
        b1 == IF tx.date >= AddMonths(bill.due_date, -1)
              THEN [bill EXCEPT !.paid_flag = FALSE] ELSE bill
        b2 == IF b1.end_date # NoDate /\ b1.due_date <= b1.end_date
              THEN [b1 EXCEPT !.is_recurring = TRUE] ELSE b1
    IN IF ~db.ok THEN db
       ELSE IF bill.due_date = NoDate THEN Raise(db)
       ELSE expense_save(db, tx.bill, b2)

\* Updater._updated_affected_upcomings(tx)
updated_affected_upcomings(db, i) ==
    LET tx == db.transactions[i]
        bill == db.upcoming[tx.bill]
        b1 == IF tx.date >= AddMonths(bill.due_date, -1)
              THEN [bill EXCEPT !.paid_flag = FALSE,
                                !.due_date = AddMonths(bill.due_date, -1)]
              ELSE bill
        b2 == IF b1.end_date # NoDate /\ b1.due_date <= b1.end_date
              THEN [b1 EXCEPT !.is_recurring = TRUE] ELSE b1
    IN IF ~db.ok THEN db
       ELSE IF bill.due_date = NoDate THEN Raise(db)
       ELSE expense_save(db, tx.bill, b2)

\* Updater.new_transaction
new_transaction(db, txq) ==
    rebalance(handle_upcoming(recalc_asset_amount(db, txq), txq),
              txq, TRUE, TRUE, TRUE, TRUE)

\* Variant of transaction_updated that applies the stored amount as it is.
transaction_updated_no_negate(db, i) ==
    rebalance(recalc_asset_amount(db, {i}), {i}, TRUE, TRUE, TRUE, TRUE)

\* Updater.transaction_updated: the Updater holds one transaction; its
\* stored amount is negated and saved, then applied to the balance.
transaction_updated(db, i) ==
    LET tx == db.transactions[i]
        d1 == IF tx.bill # "none"
              THEN updated_affected_upcomings(db, i) ELSE db
        d2 == IF ~d1.ok THEN d1
              ELSE [d1 EXCEPT !.transactions[i].amount = tx.amount * (-1)]
    IN rebalance(recalc_asset_amount(d2, {i}), {i}, TRUE, TRUE, TRUE, TRUE)

----
\* finance/logic/validators.py

\* _validate_transaction: TRUE when no ValidationError is raised.
validate_transaction(db, data) ==
    /\ data.source \in DOMAIN db.sources
    /\ data.currency \in IsoCurrencies
    /\ data.date <= Today
    /\ data.bill # "none" =>
          /\ data.bill \in DOMAIN db.upcoming
          /\ data.tx_type = "EXPENSE"

----
\* The database and the bookkeeping of an action

Database ==
    [profile |-> profile, sources |-> sources, assets |-> assets,
     transactions |-> transactions, upcoming |-> upcoming,
     snapshot |-> snapshot, ok |-> TRUE, writes |-> <<>>]

\* Commit the atomic block.
Commit(db) ==
    /\ profile' = db.profile
    /\ sources' = db.sources
    /\ assets' = db.assets
    /\ transactions' = db.transactions
    /\ upcoming' = db.upcoming
    /\ snapshot' = db.snapshot

\* Roll the atomic block back: the tables keep their values.
Rollback ==
    UNCHANGED <<profile, sources, assets, transactions, upcoming, snapshot>>

\* Variant of atomic in which the writes made before an exception stay.
atomic_autocommit(db0, db) ==
    db

\* @transaction.atomic around a service: db0 is the database the call
\* starts from, db the one its body leaves; an exception restores every
\* table.
atomic(db0, db) ==
    IF db.ok THEN db
    ELSE [db0 EXCEPT !.ok = FALSE, !.writes = db.writes]

Balances == [s \in DOMAIN assets |-> assets[s].amount]

\* The requests that can be in flight together, none of them begun.
Requests == 1..2

NoRequests == [r \in Requests |-> [state |-> "idle"]]

\* lastOp before any call.
NoOp ==
    [name |-> "none", tx |-> 0, args |-> <<>>, ok |-> TRUE, pre |-> <<>>,
     old |-> NoTx, writes |-> <<>>,
     before |-> [name |-> "none", tx |-> 0, args |-> <<>>,
                 pre |-> <<>>]]

\* lastOp keeps what the last call was given and did: pre holds the
\* balances and old the transaction row the call started from, before
\* the call that preceded it.
Completed(name, i, args, ok, writes) ==
    /\ UNCHANGED inflight
    /\ calls' = calls + 1
    /\ lastOp' = [name |-> name, tx |-> i, args |-> args, ok |-> ok,
                  pre |-> Balances,
                  old |-> IF i \in DOMAIN transactions
                          THEN transactions[i] ELSE NoTx,
                  writes |-> writes,
                  before |-> [name |-> lastOp.name, tx |-> lastOp.tx,
                              args |-> lastOp.args, pre |-> lastOp.pre]]

----
\* finance/services/transaction_services.py

\* _handle_upcoming(queryset), single expense: the payment transition,
\* then save().
svc_handle_upcoming(db, name) ==
    LET row == db.upcoming[name]
    IN IF ~db.ok THEN db
       ELSE IF row.is_recurring /\ row.due_date = NoDate
               /\ ~(row.end_date # NoDate /\ Today >= row.end_date)
       THEN Raise(db)
       ELSE expense_save(db, name, bill_paid(row))

\* add_transaction(uid, data), data a single dict
add_transaction(db, i, data) ==
    LET item == fix_tx_data(data)
        d1 == [db EXCEPT !.transactions[i] = item]
        d2 == IF item.bill # "none"
              THEN svc_handle_upcoming(d1, item.bill) ELSE d1
    IN IF ~validate_transaction(db, data) THEN Raise(db)
       ELSE new_transaction(d2, {i})

\* add_transaction, the loop "for tx in to_update": the stored rows in the
\* order of Meta.ordering (date), then of their entry.
RECURSIVE new_transactions(_, _)
new_transactions(db, ids) ==
    IF ids = {} THEN db
    ELSE LET i == CHOOSE x \in ids :
                    \A y \in ids :
                       \/ db.transactions[x].date < db.transactions[y].date
                       \/ /\ db.transactions[x].date = db.transactions[y].date
                          /\ x <= y
         IN new_transactions(new_transaction(db, {i}), ids \ {i})

\* Variant of the list branch that refuses the whole list when the
\* validator rejects one of its items.
bulk_add_all_or_nothing(db, first, items) ==
    LET ids == first .. (first + Len(items) - 1)
        d1 == [db EXCEPT
                 !.transactions =
                    [i \in DOMAIN db.transactions |->
                        IF i \in ids THEN fix_tx_data(items[i - first + 1])
                        ELSE db.transactions[i]]]
    IN IF \E k \in 1..Len(items) : ~validate_transaction(db, items[k])
       THEN Raise(db)
       ELSE new_transactions(d1, ids)

\* add_transaction(uid, data), data a list: the items the validator
\* rejects are left out; _handle_upcoming(paid_bills) calls get() on the
\* expense fix_tx_data resolved, which raises; the accepted items are
\* stored by bulk_create from the entry first on.
bulk_add_transactions(db, first, items) ==
    LET accepted == SelectSeq(items,
                              LAMBDA data : validate_transaction(db, data))
        ids == first .. (first + Len(accepted) - 1)
        d1 == [db EXCEPT
                 !.transactions =
                    [i \in DOMAIN db.transactions |->
                        IF i \in ids THEN fix_tx_data(accepted[i - first + 1])
                        ELSE db.transactions[i]]]
    IN IF \E k \in 1..Len(accepted) : accepted[k].bill # "none"
       THEN Raise(db)
       ELSE new_transactions(d1, ids)

\* TransactionView.post, single item: a body that carries tx_id or
\* entry_id is answered 403 before the service is called.
transaction_view_post(db, i, body) ==
    IF body.tx_id # "none" \/ body.entry_id # "none" THEN Raise(db)
    ELSE add_transaction(db, i,
            [source |-> body.source, amount |-> body.amount,
             currency |-> body.currency, tx_type |-> body.tx_type,
             date |-> body.date, bill |-> body.bill])

\* Variant of update_transaction in which the write of the new data
\* leaves the amount the reversal stored.
update_reversed_keeps_amount(db, reversed, i, data) ==
    LET item == fix_tx_data(data)
        d2 == IF ~reversed.ok THEN reversed
              ELSE [reversed EXCEPT !.transactions[i] =
                      [item EXCEPT !.amount =
                          reversed.transactions[i].amount]]
        expense == d2.upcoming[item.bill]
        d3 == IF ~d2.ok \/ item.bill = "none" THEN d2
              ELSE IF expense.due_date = NoDate THEN Raise(d2)
              ELSE IF expense.due_date >= Today
              THEN expense_save(d2, item.bill,
                                [expense EXCEPT !.paid_flag = TRUE])
              ELSE d2
    IN IF ~validate_transaction(db, data) THEN Raise(db)
       ELSE new_transaction(d3, {i})

\* update_transaction(uid, tx_id, data), after the reversal: reversed is
\* the database the call update.transaction_updated(uid, tx) leaves.
update_reversed(db, reversed, i, data) ==
    LET item == fix_tx_data(data)
        d2 == IF ~reversed.ok THEN reversed
              ELSE [reversed EXCEPT !.transactions[i] = item]
        expense == d2.upcoming[item.bill]
        d3 == IF ~d2.ok \/ item.bill = "none" THEN d2
              ELSE IF expense.due_date = NoDate THEN Raise(d2)
              ELSE IF expense.due_date >= Today
              THEN expense_save(d2, item.bill,
                                [expense EXCEPT !.paid_flag = TRUE])
              ELSE d2
    IN IF ~validate_transaction(db, data) THEN Raise(db)
       ELSE new_transaction(d3, {i})

\* update_transaction(uid, tx_id, data)
update_transaction(db, i, data) ==
    IF db.transactions[i] = NoTx THEN Raise(db)
    ELSE update_reversed(db, transaction_updated(db, i), i, data)

\* Variant of delete_transaction that removes the record only.
delete_transaction_no_reverse(db, i) ==
    IF db.transactions[i] = NoTx THEN Raise(db)
    ELSE rebalance([db EXCEPT !.transactions[i] = NoTx], {}, FALSE, TRUE,
                   TRUE, TRUE)

\* delete_transaction(uid, tx_id)
delete_transaction(db, i) ==
    LET d1 == transaction_updated(db, i)
    IN IF db.transactions[i] = NoTx THEN Raise(db)
       ELSE IF ~d1.ok THEN d1
       ELSE [d1 EXCEPT !.transactions[i] = NoTx]

----
\* finance/services/source_services.py, finance/api_tools/signals.py

\* on_delete=PROTECT of Transaction.source and of CurrentAsset.source:
\* the rows that keep a PaymentSource from being deleted.
protected(db, source) ==
    \/ source \in DOMAIN db.assets
    \/ \E i \in DOMAIN db.transactions :
          db.transactions[i] # NoTx /\ db.transactions[i].source = source

\* signals.delete_source, the pre_delete receiver of PaymentSource
signal_delete_source(db, source) ==
    [db EXCEPT !.transactions =
        [i \in DOMAIN db.transactions |->
            IF db.transactions[i] # NoTx
               /\ db.transactions[i].source = source
            THEN [db.transactions[i] EXCEPT !.source = "unknown"]
            ELSE db.transactions[i]]]

\* _validate_source on the name of the source
validate_source(db, source) ==
    /\ source # "unknown"
    /\ source \in DOMAIN db.sources

\* source_services.delete_source: QuerySet.delete() collects the rows
\* that reference the source, and raises ProtectedError on a protected
\* one, before it sends pre_delete.
delete_source(db, source) ==
    LET d1 == signal_delete_source(db, source)
        d2 == [d1 EXCEPT
                 !.sources = [s \in DOMAIN db.sources \ {source} |->
                                 db.sources[s]]]
    IN IF ~validate_source(db, source) THEN Raise(db)
       ELSE IF protected(db, source) THEN Raise(db)
       ELSE rebalance(d2, {}, TRUE, TRUE, TRUE, TRUE)

\* Variant of PaymentSource.save that stores the source only.
source_save_no_asset(db, source, acc_type) ==
    IF ~db.ok THEN db
    ELSE IF source \in DOMAIN db.sources THEN Raise(db)
    ELSE [db EXCEPT
            !.sources = [s \in DOMAIN db.sources \cup {source} |->
                           IF s = source THEN acc_type ELSE db.sources[s]]]

\* PaymentSource.objects.create: save() of a new row, which then runs
\* CurrentAsset.objects.get_or_create with amount 0 in the profile's base
\* currency.  unique_source_per_user rejects a name the profile holds.
source_save(db, source, acc_type) ==
    IF ~db.ok THEN db
    ELSE IF source \in DOMAIN db.sources THEN Raise(db)
    ELSE [db EXCEPT
            !.sources = [s \in DOMAIN db.sources \cup {source} |->
                           IF s = source THEN acc_type ELSE db.sources[s]],
            !.assets = [s \in DOMAIN db.assets \cup {source} |->
                          IF s \in DOMAIN db.assets THEN db.assets[s]
                          ELSE [amount |-> 0,
                                currency |-> db.profile.base_currency]]]

\* data['acc_type'] in PaymentSource.AccType.choices: the payload's string
\* is compared with the (value, label) pairs, and equals none of them.
InAccTypeChoices(acc_type) == \E c \in AccTypeChoices : c = <<acc_type>>

\* _validate_source on a payload: TRUE when no ValidationError is raised.
validate_source_data(db, data) ==
    /\ data.source # "none" =>
          /\ data.source # "unknown"
          /\ data.source \in DOMAIN db.sources
    /\ data.acc_type # "none" =>
          /\ data.acc_type # "UNKNOWN"
          /\ InAccTypeChoices(data.acc_type)

\* source_services.add_source
add_source(db, data) ==
    IF ~validate_source_data(db, data) THEN Raise(db)
    ELSE rebalance(source_save(db, data.source, data.acc_type), {},
                   TRUE, TRUE, TRUE, TRUE)

\* source_services.update_source: QuerySet.update(**data) on the row of
\* the source, then the rebalance.
update_source(db, source, data) ==
    LET d1 == [db EXCEPT !.sources[source] =
                  IF data.acc_type = "none" THEN db.sources[source]
                  ELSE data.acc_type]
    IN IF ~validate_source(db, source) THEN Raise(db)
       ELSE IF ~validate_source_data(db, data) THEN Raise(db)
       ELSE rebalance(d1, {}, TRUE, TRUE, TRUE, TRUE)

\* SourceView.put: the source named unknown is answered 403 before the
\* service is called.
source_view_put(db, src, data) ==
    IF src = "unknown" THEN Raise(db) ELSE update_source(db, src, data)

\* SourceView.delete: likewise.
source_view_delete(db, source) ==
    IF source = "unknown" THEN Raise(db) ELSE delete_source(db, source)

----
\* finance/services/asset_services.py

\* _validate_asset: TRUE when no ValidationError is raised.
validate_asset(db, data, src) ==
    /\ data.source # "none" => data.source \in DOMAIN db.sources
    /\ src \in DOMAIN db.sources

\* asset_services.update_asset_source(uid, data, source): the Balance of
\* data.source is pointed at source and saved; CurrentAsset.source is a
\* OneToOneField, so a source that holds a Balance takes no second one.
\* The Updater is built over the assets only.
update_asset_source(db, data, source) ==
    LET asset_instance == db.assets[data.source]
        d1 == [db EXCEPT
                 !.assets = [s \in (DOMAIN db.assets \ {data.source})
                                      \cup {source} |->
                               IF s = source THEN asset_instance
                               ELSE db.assets[s]]]
    IN IF ~validate_asset(db, data, source) THEN Raise(db)
       ELSE IF data.source \notin DOMAIN db.assets THEN Raise(db)
       ELSE IF source # data.source /\ source \in DOMAIN db.assets
       THEN Raise(db)
       ELSE rebalance(d1, {}, TRUE, TRUE, TRUE, TRUE)

----
\* finance/services/expense_services.py

\* _validate_expense: TRUE when no ValidationError is raised.
validate_expense(db, data) ==
    /\ data.name \notin DOMAIN db.upcoming
    /\ data.currency \in IsoCurrencies

\* The row a payload stores.
ExpenseRow(data) ==
    [estimated_cost |-> data.estimated_cost, currency |-> data.currency,
     due_date |-> data.due_date, paid_flag |-> data.paid_flag,
     is_recurring |-> data.is_recurring, end_date |-> data.end_date,
     status |-> data.status]

\* The rows of up with the row of data stored under data.name, written
\* as it is (bulk_create, QuerySet.update: save() is not called).
StoreRow(up, data) ==
    [n \in DOMAIN up \cup {data.name} |->
        IF n = data.name THEN ExpenseRow(data) ELSE up[n]]

\* add_expense(uid, data), data a single dict: objects.create calls
\* save(); the Updater is built over the profile alone.
add_expense(db, data) ==
    LET d1 == [db EXCEPT !.upcoming = StoreRow(db.upcoming, data)]
        d2 == expense_save(d1, data.name, ExpenseRow(data))
    IN IF ~validate_expense(db, data) THEN Raise(db)
       ELSE rebalance(d2, {}, FALSE, FALSE, FALSE, TRUE)

RECURSIVE StoreRows(_, _)
StoreRows(up, items) ==
    IF items = {} THEN up
    ELSE LET data == CHOOSE d \in items : TRUE
         IN StoreRows(StoreRow(up, data), items \ {data})

\* add_expense(uid, data), data a list: the items the validator accepts
\* are stored with bulk_create.
bulk_add_expenses(db, items) ==
    LET accepted == {data \in items : validate_expense(db, data)}
        d1 == [db EXCEPT !.upcoming = StoreRows(db.upcoming, accepted)]
    IN rebalance(d1, {}, FALSE, FALSE, FALSE, TRUE)

\* update_expense(uid, data, expense_name): the validators take the
\* expense to exist and the payload's name to be free; QuerySet.update
\* writes the payload's columns, the name among them.
update_expense(db, data, expense_name) ==
    LET rest == [n \in DOMAIN db.upcoming \ {expense_name} |->
                    db.upcoming[n]]
        d1 == [db EXCEPT !.upcoming = StoreRow(rest, data)]
    IN IF expense_name \notin DOMAIN db.upcoming THEN Raise(db)
       ELSE IF ~validate_expense(db, data) THEN Raise(db)
       ELSE rebalance(d1, {}, FALSE, FALSE, FALSE, TRUE)

\* delete_expense(uid, expense_name)
delete_expense(db, expense_name) ==
    LET d1 == [db EXCEPT
                 !.upcoming = [n \in DOMAIN db.upcoming \ {expense_name}
                                 |-> db.upcoming[n]]]
    IN IF expense_name \notin DOMAIN db.upcoming THEN Raise(db)
       ELSE rebalance(d1, {}, FALSE, FALSE, FALSE, TRUE)

----
\* finance/services/user_services.py

\* str.upper over the strings the requests carry.
Upper(str) ==
    CASE str = "code" -> "CODE"
      [] str = "cash" -> "CASH"
      [] str = "bank" -> "BANK"
      [] OTHER -> str

\* user_update_base_currency(uid, data): data is a dict of one entry,
\* key |-> value.  The keys are upper-cased, then data['code'] is read.
user_update_base_currency(db, data) ==
    LET keys == {Upper(data.key)}
    IN IF "code" \notin keys THEN Raise(db)
       ELSE IF data.value \notin Currencies THEN Raise(db)
       ELSE [db EXCEPT !.profile.base_currency = data.value]

\* user_update_spend_accounts(uid, data): data is the list of source
\* names the signature documents, or a dict keyed by them.  A list has
\* no items(); a dict's keys are upper-cased and looked up as sources.
user_update_spend_accounts(db, data) ==
    IF data.kind = "list" THEN Raise(db)
    ELSE LET items == {Upper(k) : k \in data.items}
         IN IF \E item \in items : item \notin DOMAIN db.sources
            THEN Raise(db)
            ELSE [db EXCEPT !.profile.spend_accounts = items]

----
\* Actions

\* A transaction request the service rejects, or one in which a step
\* raises, leaves every table as it was: the transaction actions are the
\* requests that commit.
Post(payloads) ==
    /\ calls < MaxCalls
    /\ next_entry_id <= MaxTx
    /\ \E data \in payloads :
         \E db \in {add_transaction(Database, next_entry_id, data)} :
            /\ db.ok
            /\ Commit(db)
            /\ next_entry_id' = next_entry_id + 1
            /\ Completed("add_transaction", next_entry_id, <<>>, TRUE,
                         db.writes)

AddTransaction == Post(TxData)

\* The reversal does not read the payload: it is taken once for the
\* transaction and each payload continues from it.
Update(payloads) ==
    /\ calls < MaxCalls
    /\ \E i \in TxIds :
         /\ transactions[i] # NoTx
         /\ \E reversed \in {transaction_updated(Database, i)} :
              \E data \in payloads :
                \E db \in {update_reversed(Database, reversed, i, data)} :
                   /\ db.ok
                   /\ db = update_transaction(Database, i, data)
                   /\ Commit(db)
                   /\ UNCHANGED next_entry_id
                   /\ Completed("update_transaction", i, <<>>, TRUE,
                                db.writes)

UpdateTransaction == Update(TxData)

DeleteTransaction ==
    /\ calls < MaxCalls
    /\ \E i \in TxIds :
         \E db \in {delete_transaction(Database, i)} :
            /\ db.ok
            /\ Commit(db)
            /\ UNCHANGED next_entry_id
            /\ Completed("delete_transaction", i, <<>>, TRUE, db.writes)

\* The transaction requests, the ones that raise included: each service
\* is an atomic block, and the view answers an exception with an error
\* status.
PostRequest ==
    /\ calls < MaxCalls
    /\ next_entry_id <= MaxTx
    /\ \E data \in AtomicTxData :
         \E db \in {atomic(Database,
                           add_transaction(Database, next_entry_id, data))} :
            /\ Commit(db)
            /\ next_entry_id' = IF db.ok THEN next_entry_id + 1
                                ELSE next_entry_id
            /\ Completed("add_transaction", next_entry_id,
                         <<data.currency>>, db.ok, db.writes)

BulkPost(payloads) ==
    /\ calls < MaxCalls
    /\ next_entry_id + BulkLen - 1 <= MaxTx
    /\ \E items \in [1..BulkLen -> payloads] :
         \E db \in {atomic(Database,
                           bulk_add_transactions(Database, next_entry_id,
                                                 items))} :
            /\ Commit(db)
            /\ next_entry_id' =
                  Cardinality({i \in TxIds : db.transactions[i] # NoTx}) + 1
            /\ Completed("bulk_add_transactions", next_entry_id,
                         [k \in 1..BulkLen |-> items[k].currency], db.ok,
                         db.writes)

BulkPostRequest == BulkPost(AtomicTxData)

UpdateRequest ==
    /\ calls < MaxCalls
    /\ \E i \in TxIds, data \in AtomicTxData :
         \E db \in {atomic(Database,
                           update_transaction(Database, i, data))} :
            /\ Commit(db)
            /\ UNCHANGED next_entry_id
            /\ Completed("update_transaction", i, <<data.currency>>, db.ok,
                         db.writes)

DeleteRequest ==
    /\ calls < MaxCalls
    /\ \E i \in TxIds :
         \E db \in {atomic(Database, delete_transaction(Database, i))} :
            /\ Commit(db)
            /\ UNCHANGED next_entry_id
            /\ Completed("delete_transaction", i, <<>>, db.ok, db.writes)

\* Two posts of one profile in flight together. The services take no
\* lock (no select_for_update, no F expression): the body of a request
\* runs over the rows as committed when it began, and its statements
\* store the values it computed. The row locks of the store order the
\* writes of two requests to one row: the later commit's value stays.
BeginPost ==
    /\ next_entry_id <= MaxTx
    /\ \E r \in Requests, data \in ConcTxData :
         /\ inflight[r].state = "idle"
         /\ \E db \in {add_transaction(Database, next_entry_id, data)} :
               /\ db.ok
               /\ inflight' = [inflight EXCEPT ![r] =
                                 [state |-> "open", tx |-> next_entry_id,
                                  data |-> data, db |-> db]]
    /\ next_entry_id' = next_entry_id + 1
    /\ UNCHANGED <<profile, sources, assets, transactions, upcoming,
                   snapshot, calls, lastOp>>

\* The columns of the Snapshot the statements of a request wrote.
WrittenColumns(writes) ==
    UNION {UNION {writes[k][j] : j \in 1..Len(writes[k])} :
             k \in 1..Len(writes)}

\* COMMIT of an open request: the Transaction row it inserted, the
\* CurrentAsset row and the Snapshot columns it updated.
CommitPost ==
    \E r \in Requests :
       /\ inflight[r].state = "open"
       /\ LET db == inflight[r].db
              i == inflight[r].tx
              source == db.transactions[i].source
          IN /\ transactions' = [transactions EXCEPT ![i] =
                                                        db.transactions[i]]
             /\ assets' = [assets EXCEPT ![source] = db.assets[source]]
             /\ snapshot' = [f \in SnapshotFields |->
                               IF f \in WrittenColumns(db.writes)
                               THEN db.snapshot[f] ELSE snapshot[f]]
             /\ lastOp' = [NoOp EXCEPT !.name = "add_transaction",
                                       !.tx = i, !.writes = db.writes]
       /\ inflight' = [inflight EXCEPT ![r] =
                         [state |-> "done", tx |-> inflight[r].tx,
                          data |-> inflight[r].data]]
       /\ calls' = calls + 1
       /\ UNCHANGED <<profile, sources, upcoming, next_entry_id>>

\* DELETE of a source the profile holds; the view answers an exception
\* of the service with an error status.
DeleteSource ==
    /\ calls < MaxCalls
    /\ \E source \in DOMAIN sources \ {"unknown"} :
         \E db \in {delete_source(Database, source)} :
            /\ IF db.ok THEN Commit(db) ELSE Rollback
            /\ UNCHANGED next_entry_id
            /\ Completed("delete_source", 0, <<source>>, db.ok, db.writes)

\* PaymentSource.objects.create outside the services: the seeding of a
\* profile and the admin site store a source this way.
CreateSource ==
    /\ calls < MaxCalls
    /\ \E source \in NewSourceNames, acc_type \in AccTypes \ {"UNKNOWN"} :
         \E db \in {source_save(Database, source, acc_type)} :
            /\ db.ok
            /\ Commit(db)
            /\ UNCHANGED next_entry_id
            /\ Completed("create_source", 0, <<source, acc_type>>, TRUE,
                         db.writes)

\* POST of a source; the view answers an exception of the service with
\* an error status.
AddSource ==
    /\ calls < MaxCalls
    /\ \E data \in SourceData :
         /\ data.source # "none"
         /\ \E db \in {add_source(Database, data)} :
               /\ IF db.ok THEN Commit(db) ELSE Rollback
               /\ UNCHANGED next_entry_id
               /\ Completed("add_source", 0, <<data>>, db.ok, db.writes)

\* PUT of a source the profile holds.
UpdateSource ==
    /\ calls < MaxCalls
    /\ \E source \in DOMAIN sources \ {"unknown"},
          acc_type \in {"CHECKING", "EWALLET", "none"} :
         \E db \in {update_source(Database, source,
                                  [source |-> "none",
                                   acc_type |-> acc_type])} :
            /\ IF db.ok THEN Commit(db) ELSE Rollback
            /\ UNCHANGED next_entry_id
            /\ Completed("update_source", 0, <<source, acc_type>>, db.ok,
                         db.writes)

\* PATCH of an asset: the Balance of one source is pointed at another.
UpdateAssetSource ==
    /\ calls < MaxCalls
    /\ \E from \in DOMAIN assets, source \in DOMAIN sources \ {"unknown"} :
         \E db \in {update_asset_source(Database, [source |-> from],
                                        source)} :
            /\ IF db.ok THEN Commit(db) ELSE Rollback
            /\ UNCHANGED next_entry_id
            /\ Completed("update_asset_source", 0, <<from, source>>, db.ok,
                         db.writes)

\* POST of one planned expense.
AddExpense ==
    /\ calls < MaxCalls
    /\ \E data \in ExpenseData :
         \E db \in {add_expense(Database, data)} :
            /\ db.ok
            /\ Commit(db)
            /\ UNCHANGED next_entry_id
            /\ Completed("add_expense", 0, <<data.name>>, TRUE, db.writes)

\* POST of a list of planned expenses, no two of one name.
BulkAddExpenses ==
    /\ calls < MaxCalls
    /\ \E items \in SUBSET ExpenseData :
         /\ items # {}
         /\ \A d1, d2 \in items : d1.name = d2.name => d1 = d2
         /\ \E db \in {bulk_add_expenses(Database, items)} :
               /\ db.ok
               /\ Commit(db)
               /\ UNCHANGED next_entry_id
               /\ Completed("bulk_add_expenses", 0,
                            <<{d.name : d \in items}>>, TRUE, db.writes)

\* PUT of a planned expense.
UpdateExpense ==
    /\ calls < MaxCalls
    /\ \E expense_name \in DOMAIN upcoming, data \in ExpenseData :
         \E db \in {update_expense(Database, data, expense_name)} :
            /\ db.ok
            /\ Commit(db)
            /\ UNCHANGED next_entry_id
            /\ Completed("update_expense", 0, <<expense_name, data.name>>,
                         TRUE, db.writes)

\* DELETE of a planned expense.
DeleteExpense ==
    /\ calls < MaxCalls
    /\ \E expense_name \in DOMAIN upcoming :
         \E db \in {delete_expense(Database, expense_name)} :
            /\ db.ok
            /\ Commit(db)
            /\ UNCHANGED next_entry_id
            /\ Completed("delete_expense", 0, <<expense_name>>, TRUE,
                         db.writes)

\* user_update_base_currency under @transaction.atomic
UpdateBaseCurrency ==
    /\ calls < MaxCalls
    /\ \E data \in BaseCurrencyData :
         \E db \in {atomic(Database,
                           user_update_base_currency(Database, data))} :
            /\ Commit(db)
            /\ UNCHANGED next_entry_id
            /\ Completed("user_update_base_currency", 0, <<data>>, db.ok,
                         db.writes)

\* user_update_spend_accounts under @transaction.atomic
UpdateSpendAccounts ==
    /\ calls < MaxCalls
    /\ \E data \in SpendAccountsData :
         \E db \in {atomic(Database,
                           user_update_spend_accounts(Database, data))} :
            /\ Commit(db)
            /\ UNCHANGED next_entry_id
            /\ Completed("user_update_spend_accounts", 0, <<data>>, db.ok,
                         db.writes)

\* POST transactions/ with a single item.
PostView ==
    /\ calls < MaxCalls
    /\ next_entry_id <= MaxTx
    /\ \E body \in PostViewData :
         \E db \in {atomic(Database,
                           transaction_view_post(Database, next_entry_id,
                                                 body))} :
            /\ Commit(db)
            /\ next_entry_id' = IF db.ok THEN next_entry_id + 1
                                ELSE next_entry_id
            /\ Completed("transaction_view_post", next_entry_id, <<body>>,
                         db.ok, db.writes)

\* POST sources/ with a single item that names the reserved account or
\* its type.
PostReservedSource ==
    /\ calls < MaxCalls
    /\ \E data \in [source : {"unknown", "wallet"},
                     acc_type : {"UNKNOWN", "CHECKING"}] :
         \E db \in {atomic(Database, add_source(Database, data))} :
            /\ Commit(db)
            /\ UNCHANGED next_entry_id
            /\ Completed("source_view_post", 0, <<data>>, db.ok, db.writes)

\* PUT sources/<src>/
PutSource ==
    /\ calls < MaxCalls
    /\ \E src \in DOMAIN sources, data \in ReservedSourceData :
         \E db \in {atomic(Database,
                           source_view_put(Database, src, data))} :
            /\ Commit(db)
            /\ UNCHANGED next_entry_id
            /\ Completed("source_view_put", 0, <<src, data>>, db.ok,
                         db.writes)

\* DELETE sources/
DeleteSourceRequest ==
    /\ calls < MaxCalls
    /\ \E source \in DOMAIN sources :
         \E db \in {atomic(Database, source_view_delete(Database, source))} :
            /\ Commit(db)
            /\ UNCHANGED next_entry_id
            /\ Completed("source_view_delete", 0, <<source>>, db.ok,
                         db.writes)

\* add_transaction with a list of BulkLen items; args keeps the items.
BulkPostMixed ==
    /\ calls < MaxCalls
    /\ next_entry_id + BulkLen - 1 <= MaxTx
    /\ \E items \in [1..BulkLen -> MixedTxData] :
         \E db \in {atomic(Database,
                           bulk_add_transactions(Database, next_entry_id,
                                                 items))} :
            /\ Commit(db)
            /\ next_entry_id' =
                  Cardinality({i \in TxIds : db.transactions[i] # NoTx}) + 1
            /\ Completed("bulk_add_mixed", next_entry_id, items, db.ok,
                         db.writes)

\* One call of convert_currency(amount, from_currency, to_currency): the
\* call raises or returns; args keeps the arguments and the result in
\* 1/Scale cents (0 when it raised).
Convert ==
    /\ calls < MaxCalls
    /\ \E amount \in ConvertAmounts, from_currency \in IsoCurrencies,
          to_currency \in IsoCurrencies :
         LET returned == converts(from_currency, to_currency)
             result == IF returned
                       THEN convert_currency(amount, from_currency,
                                             to_currency)
                       ELSE 0
         IN Completed("convert_currency", 0,
                      <<amount, from_currency, to_currency, result>>,
                      returned, << >>)
    /\ Rollback
    /\ UNCHANGED next_entry_id

\* One call of Updater.rebalance, the Updater built over the profile's
\* transactions.
Existing == {i \in TxIds : transactions[i] # NoTx}

Rebalance ==
    /\ calls < MaxCalls
    /\ \E acc_type \in BOOLEAN, total_assets \in BOOLEAN,
          leaks \in BOOLEAN, sts \in BOOLEAN :
         \E db \in {rebalance(Database, Existing, acc_type, total_assets,
                              leaks, sts)} :
            /\ db.ok
            /\ Commit(db)
            /\ UNCHANGED next_entry_id
            /\ Completed("rebalance", 0,
                         <<acc_type, total_assets, leaks, sts>>,
                         TRUE, db.writes)

----
\* Initial state: a profile seeded by _generate_base_profile (sources
\* cash and unknown, cash the spend account) to which the owner has added
\* the source bank after changing the base currency; the base currency
\* now is either one.

\* Variant of the seeding in which bank is of type UNKNOWN too.
SeededSourcesTwoUnknown ==
    [s \in SourceNames |->
        CASE s = "cash" -> "CASH"
          [] OTHER -> "UNKNOWN"]

\* The sources of that profile and their types.
SeededSources ==
    [s \in SourceNames |->
        CASE s = "cash" -> "CASH"
          [] s = "bank" -> "CHECKING"
          [] OTHER -> "UNKNOWN"]

SeededCurrency(s) == IF s = "bank" THEN "EUR" ELSE "USD"

Init ==
    /\ profile \in [base_currency : Currencies, spend_accounts : {{"cash"}}]
    /\ sources = SeededSources
    /\ assets = [s \in SourceNames |->
                   [amount |-> 0, currency |-> SeededCurrency(s)]]
    /\ transactions = [i \in TxIds |-> NoTx]
    /\ next_entry_id = 1
    /\ upcoming = << >>
    /\ snapshot = [f \in SnapshotFields |-> 0]
    /\ calls = 0
    /\ lastOp = NoOp
    /\ inflight = NoRequests

Next ==
    \/ AddTransaction
    \/ UpdateTransaction
    \/ DeleteTransaction

Spec == Init /\ [][Next]_vars

\* The source services over the same profile.
NextSource ==
    \/ AddTransaction
    \/ DeleteSource

SpecSource == Init /\ [][NextSource]_vars

\* The sources and their Balances: creation, the source services and the
\* reassignment of a Balance.
NextAccounts ==
    \/ CreateSource
    \/ AddSource
    \/ UpdateSource
    \/ DeleteSource
    \/ UpdateAssetSource

SpecAccounts == Init /\ [][NextAccounts]_vars

----
\* The Calculator and Updater.rebalance over drawn tables: balances of
\* any amount on every account, the UNKNOWN one included, transfers of
\* the current month and a planned expense.

CalcBalances == {-3, 7}

CalcRows ==
    {NoTx,
     [source |-> "cash", amount |-> 3, currency |-> "USD",
      tx_type |-> "XFER_IN", date |-> Today, bill |-> "none"],
     [source |-> "bank", amount |-> -5, currency |-> "EUR",
      tx_type |-> "XFER_OUT", date |-> Today, bill |-> "none"]}

CalcUpcoming ==
    {<< >>,
     [n \in {"rent"} |->
        [estimated_cost |-> 5, currency |-> "EUR", due_date |-> Today,
         paid_flag |-> FALSE, is_recurring |-> FALSE,
         end_date |-> NoDate, status |-> "ACTIVE"]]}

InitCalc ==
    /\ profile \in [base_currency : Currencies, spend_accounts : {{"cash"}}]
    /\ sources = SeededSources
    /\ \E amt \in [SourceNames -> CalcBalances] :
          assets = [s \in SourceNames |->
                      [amount |-> amt[s], currency |-> SeededCurrency(s)]]
    /\ transactions \in [TxIds -> CalcRows]
    /\ next_entry_id = MaxTx + 1
    /\ upcoming \in CalcUpcoming
    /\ snapshot = [f \in SnapshotFields |-> 0]
    /\ calls = 0
    /\ lastOp = NoOp
    /\ inflight = NoRequests

NextCalc == Rebalance

SpecCalc == InitCalc /\ [][NextCalc]_vars

----
\* Updater.rebalance over drawn tables whose subtotals convert to half
\* cents: 0.02 EUR and 0.06 EUR are 0.025 USD and 0.075 USD.

RoundBalances == [cash : {1, 4}, bank : {2, 5}, unknown : {0}]

RoundRows ==
    [first : {NoTx,
              [source |-> "cash", amount |-> 1, currency |-> "USD",
               tx_type |-> "XFER_IN", date |-> Today, bill |-> "none"]},
     second : {NoTx,
               [source |-> "bank", amount |-> -2, currency |-> "EUR",
                tx_type |-> "XFER_OUT", date |-> Today, bill |-> "none"],
               [source |-> "bank", amount |-> 6, currency |-> "EUR",
                tx_type |-> "XFER_IN", date |-> Today, bill |-> "none"]}]

RoundUpcoming ==
    [rent : [estimated_cost : {2, 5}, currency : {"EUR"},
             due_date : {Today}, paid_flag : {FALSE},
             is_recurring : {FALSE}, end_date : {NoDate},
             status : {"ACTIVE"}],
     gym : [estimated_cost : {1}, currency : {"USD"},
            due_date : {Today}, paid_flag : {FALSE},
            is_recurring : {FALSE}, end_date : {NoDate},
            status : {"ACTIVE"}]]

InitRound ==
    /\ profile \in [base_currency : Currencies, spend_accounts : {{"cash"}}]
    /\ sources = SeededSources
    /\ \E amt \in RoundBalances :
          assets = [s \in SourceNames |->
                      [amount |-> amt[s], currency |-> SeededCurrency(s)]]
    /\ \E rows \in RoundRows :
          transactions = [i \in TxIds |->
                            IF i = 1 THEN rows.first
                            ELSE IF i = 2 THEN rows.second ELSE NoTx]
    /\ next_entry_id = MaxTx + 1
    /\ upcoming \in RoundUpcoming
    /\ snapshot = [f \in SnapshotFields |-> 0]
    /\ calls = 0
    /\ lastOp = NoOp
    /\ inflight = NoRequests

NextRound == Rebalance

SpecRound == InitRound /\ [][NextRound]_vars

----
\* Updater.rebalance over drawn planned expenses: one expense of any due
\* date, paid flag and status next to one that is due and unpaid.

ExpenseStatus == {"PENDING", "ACTIVE", "COMPLETED", "CANCELLED"}

StsDueDates == {MkDate(2, 20), Today, MkDate(3, 9)}

StsUpcoming ==
    {[n \in {"rent", "gym"} |->
        IF n = "rent"
        THEN [estimated_cost |-> 5, currency |-> "EUR", due_date |-> d,
              paid_flag |-> p, is_recurring |-> FALSE,
              end_date |-> NoDate, status |-> st]
        ELSE [estimated_cost |-> 3, currency |-> "USD", due_date |-> Today,
              paid_flag |-> FALSE, is_recurring |-> FALSE,
              end_date |-> NoDate, status |-> "ACTIVE"]] :
       d \in StsDueDates, p \in BOOLEAN, st \in {"ACTIVE", "CANCELLED"}}

InitSts ==
    /\ profile \in [base_currency : Currencies, spend_accounts : {{"cash"}}]
    /\ sources = SeededSources
    /\ \E amt \in CalcBalances :
          assets = [s \in SourceNames |->
                      [amount |-> IF s = "cash" THEN amt ELSE 0,
                       currency |-> SeededCurrency(s)]]
    /\ transactions = [i \in TxIds |-> NoTx]
    /\ next_entry_id = 1
    /\ upcoming \in StsUpcoming
    /\ snapshot = [f \in SnapshotFields |-> 0]
    /\ calls = 0
    /\ lastOp = NoOp
    /\ inflight = NoRequests

NextSts == Rebalance

SpecSts == InitSts /\ [][NextSts]_vars

----
\* The transaction services over a profile that holds the planned
\* expense rent: payments of the expense are posted, edited and deleted.

BillDueDates == {MkDate(3, 1), MkDate(3, 10)}

BillEndDates == {NoDate, MkDate(3, 1), Today, MkDate(4, 20)}

BillRows ==
    [estimated_cost : {5}, currency : {"EUR"}, due_date : BillDueDates,
     paid_flag : BOOLEAN, is_recurring : BOOLEAN, end_date : BillEndDates,
     status : {"ACTIVE"}]

BillTxData ==
    [source : {"cash"}, amount : {5}, currency : {"USD"},
     tx_type : {"EXPENSE"}, date : {MkDate(2, 20), Today},
     bill : {"none", "rent"}]

PayBill == Post(BillTxData)

EditBill == Update(BillTxData)

InitBills ==
    /\ profile \in [base_currency : Currencies, spend_accounts : {{"cash"}}]
    /\ sources = SeededSources
    /\ assets = [s \in SourceNames |->
                   [amount |-> 0, currency |-> SeededCurrency(s)]]
    /\ transactions = [i \in TxIds |-> NoTx]
    /\ next_entry_id = 1
    /\ upcoming \in [{"rent"} -> BillRows]
    /\ snapshot = [f \in SnapshotFields |-> 0]
    /\ calls = 0
    /\ lastOp = NoOp
    /\ inflight = NoRequests

NextBills ==
    \/ PayBill
    \/ EditBill
    \/ DeleteTransaction

SpecBills == InitBills /\ [][NextBills]_vars

----
\* The planned-expense services over a profile that holds the expense
\* rent and no transaction.

InitExpenses ==
    /\ InitBills
    /\ upcoming["rent"].due_date = MkDate(3, 1)
    /\ ~upcoming["rent"].paid_flag

NextExpenses ==
    \/ AddExpense
    \/ BulkAddExpenses
    \/ UpdateExpense
    \/ DeleteExpense

SpecExpenses == InitExpenses /\ [][NextExpenses]_vars

\* The transaction requests as atomic blocks: the table holds a planned
\* expense, and entry 1 is empty or a row the admin site stored, in a
\* currency with a rate or in one without.
AdminRows ==
    [source : {"cash"}, amount : {-5}, currency : {"USD", "XAU"},
     tx_type : {"EXPENSE"}, date : {MkDate(3, 5)}, bill : {"none"}]

InitAtomic ==
    /\ profile \in [base_currency : Currencies, spend_accounts : {{"cash"}}]
    /\ sources = SeededSources
    /\ assets = [s \in SourceNames |->
                   [amount |-> 0, currency |-> SeededCurrency(s)]]
    /\ \E row \in AdminRows \cup {NoTx} :
         /\ transactions = [i \in TxIds |-> IF i = 1 THEN row ELSE NoTx]
         /\ next_entry_id = IF row = NoTx THEN 1 ELSE 2
    /\ upcoming = [n \in {"rent"} |->
                     [estimated_cost |-> 5, currency |-> "USD",
                      due_date |-> MkDate(3, 1), end_date |-> NoDate,
                      is_recurring |-> TRUE, paid_flag |-> FALSE,
                      status |-> "ACTIVE"]]
    /\ snapshot = [f \in SnapshotFields |-> 0]
    /\ calls = 0
    /\ lastOp = NoOp
    /\ inflight = NoRequests

NextAtomic ==
    \/ PostRequest
    \/ BulkPostRequest
    \/ UpdateRequest
    \/ DeleteRequest

SpecAtomic == InitAtomic /\ [][NextAtomic]_vars

\* Bulk posts over the seeded profile, after single posts or before.
BulkPostAccounts == BulkPost(BulkTxData)

NextBulk ==
    \/ AddTransaction
    \/ BulkPostAccounts

SpecBulk == Init /\ [][NextBulk]_vars

\* The transaction services over a profile whose expense rent is due
\* next month, so that every transaction that can be posted is dated
\* before the due date minus one month.
CycleRows ==
    [estimated_cost : {5}, currency : {"EUR"}, due_date : {MkDate(4, 10)},
     paid_flag : BOOLEAN, is_recurring : BOOLEAN,
     end_date : {NoDate, MkDate(4, 20)}, status : {"ACTIVE"}]

InitCycle ==
    /\ profile \in [base_currency : Currencies, spend_accounts : {{"cash"}}]
    /\ sources = SeededSources
    /\ assets = [s \in SourceNames |->
                   [amount |-> 0, currency |-> SeededCurrency(s)]]
    /\ transactions = [i \in TxIds |-> NoTx]
    /\ next_entry_id = 1
    /\ upcoming \in [{"rent"} -> CycleRows]
    /\ snapshot = [f \in SnapshotFields |-> 0]
    /\ calls = 0
    /\ lastOp = NoOp
    /\ inflight = NoRequests

NextCycle ==
    \/ PayBill
    \/ EditBill
    \/ DeleteTransaction

SpecCycle == InitCycle /\ [][NextCycle]_vars

\* The transaction services over a profile whose expense rent is due
\* today, so that a payment can be dated on the due date.
DueRows ==
    [estimated_cost : {5}, currency : {"EUR"}, due_date : {Today},
     paid_flag : BOOLEAN, is_recurring : BOOLEAN, end_date : BillEndDates,
     status : {"ACTIVE"}]

InitDue ==
    /\ profile \in [base_currency : Currencies, spend_accounts : {{"cash"}}]
    /\ sources = SeededSources
    /\ assets = [s \in SourceNames |->
                   [amount |-> 0, currency |-> SeededCurrency(s)]]
    /\ transactions = [i \in TxIds |-> NoTx]
    /\ next_entry_id = 1
    /\ upcoming \in [{"rent"} -> DueRows]
    /\ snapshot = [f \in SnapshotFields |-> 0]
    /\ calls = 0
    /\ lastOp = NoOp
    /\ inflight = NoRequests

NextDue ==
    \/ PayBill
    \/ EditBill
    \/ DeleteTransaction

SpecDue == InitDue /\ [][NextDue]_vars

\* The source requests that aim at the reserved account, beside the
\* creation of sources.
NextReserved ==
    \/ CreateSource
    \/ PostReservedSource
    \/ PutSource
    \/ DeleteSourceRequest

SpecReserved == Init /\ [][NextReserved]_vars

\* Lists with rejected items, beside single posts.
NextMixed ==
    \/ AddTransaction
    \/ BulkPostMixed

SpecMixed == Init /\ [][NextMixed]_vars

\* The profile services beside the posting of transactions.
NextProfile ==
    \/ AddTransaction
    \/ UpdateBaseCurrency
    \/ UpdateSpendAccounts

SpecProfile == Init /\ [][NextProfile]_vars

\* The create requests over the seeded profile.
NextPostView == PostView

SpecPostView == Init /\ [][NextPostView]_vars

\* convert_currency over drawn arguments.
NextConvert == Convert

SpecConvert == Init /\ [][NextConvert]_vars

\* Concurrent posts over the seeded profile.
NextConcurrent ==
    \/ BeginPost
    \/ CommitPost

SpecConcurrent == Init /\ [][NextConcurrent]_vars

----
\* Properties

\* The last call deleted the transaction that the call before it posted.
PostedThenDeleted ==
    /\ lastOp.name = "delete_transaction"
    /\ lastOp.before.name = "add_transaction"
    /\ lastOp.before.tx = lastOp.tx

\* The last call updated the transaction that the call before it posted.
PostedThenUpdated ==
    /\ lastOp.name = "update_transaction"
    /\ lastOp.before.name = "add_transaction"
    /\ lastOp.before.tx = lastOp.tx

\* The signed amount of a row converted into the currency of account s.
DirectEffect(row, s) ==
    Quantize(convert_currency(row.amount, row.currency, assets[s].currency))

\* The signed amount of a row normalised to the base currency, rounded,
\* then converted into the currency of account s, rounded.
NormalisedEffect(row, s) ==
    Quantize(convert_currency(
        Quantize(convert_currency(row.amount, row.currency,
                                  profile.base_currency)),
        profile.base_currency, assets[s].currency))

\* C1: in every state reached by completed post, update and delete calls,
\* each account's balance equals zero plus the sum of the signed effects,
\* converted into the account's currency, of exactly the transactions
\* that exist for the account.  The effect is read either as the direct
\* conversion or as the conversion through the base currency.
C1_BalanceIsSumOfEffects ==
    \/ \A s \in DOMAIN assets :
          assets[s].amount =
             SumFn([i \in TxIds |->
                      IF transactions[i] = NoTx THEN 0
                      ELSE DirectEffect(transactions[i], s)],
                   {i \in Existing : transactions[i].source = s})
    \/ \A s \in DOMAIN assets :
          assets[s].amount =
             SumFn([i \in TxIds |->
                      IF transactions[i] = NoTx THEN 0
                      ELSE NormalisedEffect(transactions[i], s)],
                   {i \in Existing : transactions[i].source = s})

\* C2: posting a transaction and then reversing that same transaction
\* returns every account's balance to its value before the post, within
\* one cent, for every type and every combination of currencies.
C2_PostThenReverse ==
    PostedThenDeleted =>
       \A s \in DOMAIN assets :
          AbsVal(assets[s].amount - lastOp.before.pre[s]) <= 1

C2_Witness ==
    /\ PostedThenDeleted
    /\ lastOp.old.currency # assets[lastOp.old.source].currency
    /\ assets[lastOp.old.source].currency # profile.base_currency
    /\ lastOp.before.pre[lastOp.old.source] # 0

\* C3: a post of magnitude a on an account whose currency is the
\* transaction's lowers the balance by exactly a for EXPENSE and XFER_OUT
\* and raises it by exactly a for INCOME and XFER_IN.
C3_SameCurrencyPostIsExact ==
    LET row == transactions[lastOp.tx]
        a == AbsVal(row.amount)
    IN (/\ lastOp.name = "add_transaction"
        /\ row.currency = assets[row.source].currency)
       => assets[row.source].amount - lastOp.pre[row.source] =
             IF row.tx_type \in {"EXPENSE", "XFER_OUT"} THEN -a ELSE a

\* C4: after update_transaction(t, new_data) every account's balance
\* equals the balance it would have if t had never been posted and a
\* transaction carrying new_data had been posted instead.
C4_UpdateNetsOut ==
    LET never == [Database EXCEPT
                    !.assets = [s \in DOMAIN assets |->
                                  [assets[s] EXCEPT
                                     !.amount = lastOp.before.pre[s]]]]
        instead == recalc_asset_amount(never, {lastOp.tx})
    IN PostedThenUpdated =>
          \A s \in DOMAIN assets :
             assets[s].amount = instead.assets[s].amount

C6_SnapshotMatchesCalculator ==
    lastOp.name \in {"add_transaction", "update_transaction",
                     "delete_transaction"} =>
       /\ \A t \in AccTypes \ {"UNKNOWN"} :
             snapshot[TotalField(t)] = calc_asset_type(Database, t)
       /\ snapshot["total_assets"] = calc_total_assets(Database)
       /\ snapshot["total_leaks"] = calc_leaks(Database)
       /\ snapshot["safe_to_spend"] = calc_sts(Database)

\* Position of a snapshots.update() statement in the order of rebalance.
Rank(columns) ==
    IF columns = {"total_assets"} THEN 2
    ELSE IF columns = {"total_leaks"} THEN 3
    ELSE IF columns = {"safe_to_spend"} THEN 4
    ELSE IF columns \subseteq {TotalField(t) : t \in AccTypes} THEN 1
    ELSE 0

\* C7: every rebalance call writes the Snapshot in the order account-type
\* totals (when requested), total assets, leaks, safe-to-spend: the
\* statements of one call are exactly the requested ones, in that order.
C7_RebalanceWriteOrder ==
    lastOp.name = "rebalance" =>
       \A c \in 1 .. Len(lastOp.writes) :
          LET w == lastOp.writes[c]
          IN /\ \A j, k \in 1 .. Len(w) :
                   j < k => Rank(w[j]) < Rank(w[k])
             /\ {Rank(w[j]) : j \in 1 .. Len(w)} =
                   {r \in 1 .. 4 : lastOp.args[r]}

C7_Witness ==
    /\ lastOp.name = "rebalance"
    /\ lastOp.args = <<TRUE, TRUE, TRUE, TRUE>>
    /\ Len(lastOp.writes[1]) = 4
    /\ snapshot["safe_to_spend"] # 0

\* C8: calling rebalance twice in a row with the same arguments and no
\* mutation of the tables in between leaves the Snapshot after the second
\* call identical, field by field, to the Snapshot after the first.
C8_RebalanceIdempotent ==
    [][(/\ lastOp.name = "rebalance"
        /\ lastOp'.name = "rebalance"
        /\ calls' = calls + 1
        /\ lastOp'.args = lastOp.args)
       => snapshot' = snapshot]_vars

C8_Witness ==
    /\ lastOp.name = "rebalance"
    /\ lastOp.before.name = "rebalance"
    /\ lastOp.before.args = lastOp.args
    /\ lastOp.args[3]
    /\ snapshot["total_leaks"] # 0

\* C9: deleting an account that has transactions succeeds, deletes none
\* of those transactions and leaves every transaction that referenced the
\* account referencing the UNKNOWN account.
C9_DeleteSourceReassigns ==
    [][\A s \in SourceNames :
         (/\ calls' = calls + 1
          /\ lastOp'.name = "delete_source"
          /\ lastOp'.args = <<s>>
          /\ \E i \in Existing : transactions[i].source = s)
         => /\ lastOp'.ok
            /\ s \notin DOMAIN sources'
            /\ \A i \in Existing :
                  /\ transactions'[i] # NoTx
                  /\ transactions[i].source = s
                        => transactions'[i].source = "unknown"]_vars

\* C10: the total_assets that rebalance stores equals the base-currency
\* sum of the balances of the accounts whose type is not UNKNOWN,
\* whatever the UNKNOWN account's balance.
C10_TotalAssetsExcludesUnknown ==
    (lastOp.name = "rebalance" /\ lastOp.args[2]) =>
       snapshot["total_assets"] =
          Quantize(SumFn([s \in DOMAIN assets |->
                            convert_currency(assets[s].amount,
                                             assets[s].currency,
                                             profile.base_currency)],
                         {s \in DOMAIN assets : sources[s] # "UNKNOWN"}))

C10_Witness ==
    /\ lastOp.name = "rebalance"
    /\ lastOp.args[2]
    /\ assets["unknown"].amount = 7
    /\ assets["cash"].amount = -3
    /\ snapshot["total_assets"] # 0

UnpaidDue ==
    {n \in DOMAIN upcoming :
        /\ ~upcoming[n].paid_flag
        /\ upcoming[n].status = "ACTIVE"
        /\ upcoming[n].due_date <= Today}

\* C12: the safe_to_spend that rebalance stores is the spendable balances
\* minus exactly the planned expenses that are unpaid, ACTIVE and due on
\* or before today: a paid or non-ACTIVE expense is not subtracted, an
\* unpaid ACTIVE one that fell due in an earlier month is.
C12_StsSubtractsUnpaidDue ==
    LET base == profile.base_currency
        spendable == get_by_type(sources, assets,
                                 get_spend_accounts(profile))
        spend == SumByCurrency(AssetAmount(assets), AssetCurrency(assets),
                               spendable, base)
        debt == SumByCurrency(
                   [n \in DOMAIN upcoming |-> upcoming[n].estimated_cost],
                   [n \in DOMAIN upcoming |-> upcoming[n].currency],
                   UnpaidDue, base)
    IN (lastOp.name = "rebalance" /\ lastOp.args[4]) =>
          snapshot["safe_to_spend"] = Quantize(spend - debt)

\* This step is a completed post of a transaction linked to rent: an
\* add_transaction, or an update_transaction that links a transaction
\* which was linked to no expense before.
PostsLinked ==
    /\ calls' = calls + 1
    /\ lastOp'.name \in {"add_transaction", "update_transaction"}
    /\ transactions'[lastOp'.tx].bill = "rent"
    /\ lastOp'.name = "update_transaction" =>
          transactions[lastOp'.tx].bill = "none"

\* C13: when a transaction linked to a recurring planned expense that has
\* no end date is posted, the expense ends paid, still recurring and with
\* a due_date exactly one calendar month later than before.
C13_RecurringAdvancesOneMonth ==
    [][(/\ PostsLinked
        /\ upcoming["rent"].is_recurring
        /\ upcoming["rent"].end_date = NoDate)
       => /\ upcoming'["rent"].paid_flag
          /\ upcoming'["rent"].is_recurring
          /\ upcoming'["rent"].due_date =
                AddMonths(upcoming["rent"].due_date, 1)]_vars

\* C14: when a transaction linked to a planned expense is posted on a
\* date that is on or after the expense's end_date, the expense ends paid
\* and not recurring, and its due_date is not advanced.
C14_EndedSeriesStops ==
    [][(/\ PostsLinked
        /\ upcoming["rent"].end_date # NoDate
        /\ Today >= upcoming["rent"].end_date)
       => /\ upcoming'["rent"].paid_flag
          /\ ~upcoming'["rent"].is_recurring
          /\ upcoming'["rent"].due_date = upcoming["rent"].due_date]_vars

\* This step is a completed reversal of a transaction linked to rent
\* whose date is on or after the due_date minus one month: a
\* delete_transaction, or an update_transaction whose new data links no
\* expense.
ReversesLinked ==
    /\ calls' = calls + 1
    /\ lastOp'.name \in {"delete_transaction", "update_transaction"}
    /\ transactions[lastOp'.tx].bill = "rent"
    /\ transactions[lastOp'.tx].date >=
          AddMonths(upcoming["rent"].due_date, -1)
    /\ lastOp'.name = "update_transaction" =>
          transactions'[lastOp'.tx].bill = "none"

\* The rolled-back due date is on or before an end date that exists.
RolledBackInSeries ==
    /\ upcoming["rent"].end_date # NoDate
    /\ AddMonths(upcoming["rent"].due_date, -1) <= upcoming["rent"].end_date

C16_RecurrenceGuardOnEveryWrite ==
    [][\A n \in DOMAIN upcoming' :
          (n \notin DOMAIN upcoming \/ upcoming'[n] # upcoming[n])
          => ~(/\ upcoming'[n].end_date # NoDate
               /\ Today > upcoming'[n].end_date
               /\ upcoming'[n].is_recurring)]_vars

\* C17: a transaction request (post, bulk post, update, delete) that
\* fails leaves the stored transactions, the balances, the planned
\* expenses and the Snapshot as they were before the request; a bulk
\* post that fails on a later item persists none of its items.
C17_FailedRequestLeavesNoTrace ==
    [][(calls' = calls + 1 /\ ~lastOp'.ok)
       => /\ transactions' = transactions
          /\ assets' = assets
          /\ upcoming' = upcoming
          /\ snapshot' = snapshot]_vars

\* A bulk post whose first item converts and whose second does not has
\* failed after the first item's rebalance wrote the Snapshot.
C17_Witness ==
    /\ lastOp.name = "bulk_add_transactions"
    /\ ~lastOp.ok
    /\ lastOp.args = <<"USD", "XAU">>
    /\ Len(lastOp.writes) > 0
    /\ \A i \in TxIds : transactions[i] = NoTx
    /\ \A s \in DOMAIN assets : assets[s].amount = 0

\* The seeded tables, and the tables the two posts leave when the
\* second begins after the first has committed.
SeededDatabase ==
    [profile |-> profile, sources |-> SeededSources,
     assets |-> [s \in SourceNames |->
                   [amount |-> 0, currency |-> SeededCurrency(s)]],
     transactions |-> [i \in TxIds |-> NoTx], upcoming |-> << >>,
     snapshot |-> [f \in SnapshotFields |-> 0], ok |-> TRUE,
     writes |-> << >>]

SerialPosts(first, second) ==
    add_transaction(
        [add_transaction(SeededDatabase, 1, inflight[first].data)
            EXCEPT !.writes = << >>],
        2, inflight[second].data)

\* C18: when two posts of one profile have both committed, the balances
\* and the Snapshot are those of one of the two serial orders.
C18_ConcurrentPostsSerialise ==
    (\A r \in Requests : inflight[r].state = "done")
    => \E first \in Requests, second \in Requests :
          /\ first # second
          /\ assets = SerialPosts(first, second).assets
          /\ snapshot = SerialPosts(first, second).snapshot

\* C19: a request that deletes an account, or that reassigns a Balance
\* to an account of another type, completes, and afterwards the Snapshot
\* totals of the account types it touched, total_assets and
\* safe_to_spend equal the Calculator's aggregation of the balances.
C19_AccountChangeRecomputesTotals ==
    [][\A from \in SourceNames \cup NewSourceNames,
          to \in SourceNames \cup NewSourceNames :
         (/\ calls' = calls + 1
          /\ \/ lastOp'.name = "delete_source" /\ lastOp'.args = <<from>>
                /\ to = from
             \/ lastOp'.name = "update_asset_source"
                /\ lastOp'.args = <<from, to>>
                /\ sources[from] # sources[to])
         => /\ lastOp'.ok
            /\ \A t \in {sources[from], sources[to]} \ {"UNKNOWN"} :
                  snapshot'[TotalField(t)] = calc_asset_type(Database, t)'
            /\ snapshot'["total_assets"] = calc_total_assets(Database)'
            /\ snapshot'["safe_to_spend"] = calc_sts(Database)']_vars

\* C20: after the two legs of one transfer have been posted in the
\* current month and in the base currency, total_leaks has the magnitude
\* of the difference between the outbound and the inbound leg: 0 for
\* equal legs, the fee for an inbound leg smaller by a fee.
C20_LeaksIsNetOfLegs ==
    (/\ calls = 2
     /\ lastOp.name = "add_transaction"
     /\ lastOp.tx = 2
     /\ lastOp.before.name = "add_transaction"
     /\ transactions[1] # NoTx
     /\ transactions[2] # NoTx
     /\ transactions[1].tx_type = "XFER_OUT"
     /\ transactions[2].tx_type = "XFER_IN"
     /\ \A i \in {1, 2} :
           /\ transactions[i].currency = profile.base_currency
           /\ InCurrentMonth(transactions[i].date)
     /\ AbsVal(transactions[2].amount) <= AbsVal(transactions[1].amount))
    => AbsVal(snapshot["total_leaks"])
          = AbsVal(transactions[1].amount) - AbsVal(transactions[2].amount)

\* C21: an update that leaves the amount, the account, the currency and
\* the type of a transaction as they were (only its description, tags
\* or date change) leaves every account balance as it was.
C21_MetadataUpdateKeepsBalances ==
    (/\ lastOp.name = "update_transaction"
     /\ lastOp.old # NoTx
     /\ transactions[lastOp.tx] # NoTx
     /\ transactions[lastOp.tx].amount = lastOp.old.amount
     /\ transactions[lastOp.tx].source = lastOp.old.source
     /\ transactions[lastOp.tx].currency = lastOp.old.currency
     /\ transactions[lastOp.tx].tx_type = lastOp.old.tx_type)
    => \A s \in DOMAIN assets : assets[s].amount = lastOp.pre[s]

\* The entries a bulk post stored, the tables before it, and the tables
\* that posting two of its items one at a time leaves.
BulkIds == lastOp.tx .. (lastOp.tx + Len(lastOp.args) - 1)

BeforeBulk ==
    [Database EXCEPT
       !.assets = [s \in DOMAIN assets |->
                     [assets[s] EXCEPT !.amount = lastOp.pre[s]]],
       !.transactions = [i \in TxIds |->
                           IF i \in BulkIds THEN NoTx ELSE transactions[i]]]

OneAtATime(first, second) ==
    add_transaction(
        [add_transaction(BeforeBulk, first, transactions[first])
            EXCEPT !.writes = << >>],
        second, transactions[second])

\* C22: after a bulk post every account's balance is its prior balance
\* plus the sum of the signed effects, in the account's currency, of
\* the items posted on it, and is the balance that posting the items
\* one at a time leaves, in either order.
C22_BulkEqualsSingles ==
    (/\ lastOp.name = "bulk_add_transactions"
     /\ lastOp.ok
     /\ \A i \in BulkIds : transactions[i] # NoTx)
    => /\ \A s \in DOMAIN assets :
             assets[s].amount =
                lastOp.pre[s]
                + SumFn([i \in TxIds |->
                           IF transactions[i] = NoTx THEN 0
                           ELSE DirectEffect(transactions[i], s)],
                        {i \in BulkIds : transactions[i].source = s})
       /\ \A first \in BulkIds, second \in BulkIds :
             first # second =>
                \A s \in DOMAIN assets :
                   assets[s].amount
                      = OneAtATime(first, second).assets[s].amount

\* C23: a post changes the balance of its account by the signed amount
\* converted from the transaction's currency directly into the
\* account's currency (the signed amount itself when the two are the
\* same), whatever the base currency is.
C23_PostConvertsDirectly ==
    LET row == transactions[lastOp.tx]
    IN (lastOp.name = "add_transaction" /\ lastOp.ok)
       => assets[row.source].amount - lastOp.pre[row.source]
             = DirectEffect(row, row.source)

\* The rows S converted one by one into the base currency and summed,
\* nothing rounded.
Unrounded(amt, cur, S) ==
    SumFn([x \in S |-> convert_currency(amt[x], cur[x],
                                        profile.base_currency)], S)

\* C24: every aggregate that rebalance stores is the sum of the
\* unrounded base-currency values of its rows, rounded to cents once at
\* the end; safe_to_spend rounds the difference of the spendable sum
\* and the expense sum, neither of them rounded before.
C24_AggregatesRoundOnce ==
    lastOp.name = "rebalance" =>
       /\ lastOp.args[1] =>
             \A i \in Existing :
                LET t == sources[transactions[i].source]
                IN snapshot[TotalField(t)] =
                      Quantize(Unrounded(AssetAmount(assets),
                                         AssetCurrency(assets),
                                         {s \in DOMAIN assets :
                                             sources[s] = t}))
       /\ lastOp.args[2] =>
             snapshot["total_assets"] =
                Quantize(Unrounded(AssetAmount(assets),
                                   AssetCurrency(assets),
                                   {s \in DOMAIN assets :
                                       sources[s] # "UNKNOWN"}))
       /\ lastOp.args[3] =>
             snapshot["total_leaks"] =
                Quantize(Unrounded(TxAmount(transactions),
                                   TxCurrency(transactions),
                                   get_by_tx_type(transactions,
                                       get_current_month(transactions),
                                       "XFER_IN"))
                         - Unrounded(TxAmount(transactions),
                                     TxCurrency(transactions),
                                     get_by_tx_type(transactions,
                                         get_current_month(transactions),
                                         "XFER_OUT")))
       /\ lastOp.args[4] =>
             snapshot["safe_to_spend"] =
                Quantize(Unrounded(AssetAmount(assets),
                                   AssetCurrency(assets),
                                   get_by_type(sources, assets,
                                       get_spend_accounts(profile)))
                         - Unrounded([n \in DOMAIN upcoming |->
                                         upcoming[n].estimated_cost],
                                     [n \in DOMAIN upcoming |->
                                         upcoming[n].currency],
                                     upcoming_current_month(upcoming)))

\* A rebalance of every field in USD over 0.01 USD on cash and 0.02 EUR
\* on bank: 0.01 + 0.025 is stored as 0.04, and the expenses 0.01 USD
\* and 0.02 EUR as -0.04.
C24_Witness ==
    /\ lastOp.name = "rebalance"
    /\ lastOp.args = <<TRUE, TRUE, TRUE, TRUE>>
    /\ profile.base_currency = "USD"
    /\ assets["cash"].amount = 1
    /\ assets["bank"].amount = 2
    /\ snapshot["total_assets"] = 4
    /\ upcoming["rent"].estimated_cost = 2
    /\ snapshot["safe_to_spend"] = -4

\* C25: convert_currency(amount, code, code) returns the amount as it
\* is, for every code (one the rate table does not hold included) and
\* every amount.
C25_ConvertIdentity ==
    (lastOp.name = "convert_currency" /\ lastOp.args[2] = lastOp.args[3])
    => /\ lastOp.ok
       /\ lastOp.args[4] = lastOp.args[1] * Scale

\* 0.03 converted from a currency without a rate into itself.
C25_Witness ==
    /\ lastOp.name = "convert_currency"
    /\ lastOp.args = <<3, "XAU", "XAU", 3 * Scale>>
    /\ lastOp.ok

\* C26: a create request that names a source the profile does not hold,
\* a currency that does not exist or a transaction type that does not
\* exist, or that supplies tx_id or entry_id, is rejected: no
\* transaction is created and no balance, planned expense or Snapshot
\* field changes.
C26_BadCreateRejected ==
    [][\A body \in PostViewData :
         (/\ calls' = calls + 1
          /\ lastOp'.name = "transaction_view_post"
          /\ lastOp'.args = <<body>>
          /\ \/ body.source \notin DOMAIN sources
             \/ body.currency \notin IsoCurrencies
             \/ body.tx_type \notin TxTypes
             \/ body.tx_id # "none"
             \/ body.entry_id # "none")
         => /\ ~lastOp'.ok
            /\ transactions' = transactions
            /\ assets' = assets
            /\ upcoming' = upcoming
            /\ snapshot' = snapshot]_vars

\* The unpaid planned expenses' total in the base currency.
RemainingExpenses(db) ==
    LET unpaid == {n \in DOMAIN db.upcoming : ~db.upcoming[n].paid_flag}
    IN Quantize(SumByCurrency(
           [n \in DOMAIN db.upcoming |-> db.upcoming[n].estimated_cost],
           [n \in DOMAIN db.upcoming |-> db.upcoming[n].currency],
           unpaid, db.profile.base_currency))

\* C27: after every completed mutation the Snapshot's
\* total_monthly_spending is the total of the current month's
\* transactions and its total_remaining_expenses is the total of the
\* unpaid planned expenses, both recomputed by rebalance.
C27_SpendingFieldsRecomputed ==
    (calls > 0 /\ lastOp.ok)
    => /\ snapshot.total_monthly_spending
            = calc_queryset(Database, get_current_month(transactions))
       /\ snapshot.total_remaining_expenses = RemainingExpenses(Database)

\* The balances of the accounts of the profile's spend-account set, in
\* the base currency, not rounded.
SpendAccountBalances(db) ==
    SumByCurrency(AssetAmount(db.assets), AssetCurrency(db.assets),
                  db.profile.spend_accounts \cap DOMAIN db.assets,
                  db.profile.base_currency)

\* The current month's planned expenses as calc_sts totals them.
StsDebt(db) ==
    SumByCurrency(
        [n \in DOMAIN db.upcoming |-> db.upcoming[n].estimated_cost],
        [n \in DOMAIN db.upcoming |-> db.upcoming[n].currency],
        upcoming_current_month(db.upcoming), db.profile.base_currency)

\* C28: the spendable part of safe_to_spend is the sum of the balances
\* of exactly the accounts of the profile's spend-account set; an
\* account outside the set adds nothing, whatever its account type.
C28_SpendableIsSpendAccountSet ==
    calc_sts(Database)
        = Quantize(SpendAccountBalances(Database) - StsDebt(Database))

\* The Snapshot columns that rebalance saves hold the Calculator's values.
SnapshotIsCalculated(db) ==
    /\ db.snapshot["safe_to_spend"] = calc_sts(db)
    /\ db.snapshot["total_assets"] = calc_total_assets(db)
    /\ db.snapshot["total_leaks"] = calc_leaks(db)
    /\ \A t \in AccTypes \ {"UNKNOWN"} :
          db.snapshot[TotalField(t)] = calc_asset_type(db, t)

\* C29: a request that sets the profile's spend accounts to accounts it
\* holds, or its base currency to a currency that exists, completes,
\* the profile holds the new value, and in the same operation the
\* Snapshot is recomputed: safe_to_spend and every total equal the
\* Calculator's values for the new spend accounts and base currency.
C29_ProfileChangeRecomputes ==
    [][(/\ calls' = calls + 1
        /\ \/ /\ lastOp'.name = "user_update_base_currency"
              /\ lastOp'.args[1].value \in Currencies
           \/ /\ lastOp'.name = "user_update_spend_accounts"
              /\ lastOp'.args[1].items # {}
              /\ lastOp'.args[1].items \subseteq DOMAIN sources)
       => /\ lastOp'.ok
          /\ lastOp'.name = "user_update_base_currency"
                => profile'.base_currency = lastOp'.args[1].value
          /\ lastOp'.name = "user_update_spend_accounts"
                => profile'.spend_accounts = lastOp'.args[1].items
          /\ SnapshotIsCalculated(Database)']_vars

\* rent is recurring and its end date, if it has one, is still ahead.
RecurringNotEnded ==
    /\ upcoming["rent"].is_recurring
    /\ upcoming["rent"].end_date = NoDate
          \/ Today < upcoming["rent"].end_date

\* C30: the payment transition runs on every posting of a transaction
\* linked to a planned expense, whether or not the expense is already
\* marked paid: each posting linked to a recurring expense whose end
\* date has not been reached moves due_date one calendar month on, so k
\* successive postings move it k months.
C30_EveryPostingAdvances ==
    [][(PostsLinked /\ RecurringNotEnded)
       => /\ upcoming'["rent"].paid_flag
          /\ upcoming'["rent"].due_date =
                AddMonths(upcoming["rent"].due_date, 1)]_vars

\* This step is a completed reversal of a transaction linked to rent
\* whose date is before the due_date minus one month: a
\* delete_transaction, or an update_transaction whose new data links no
\* expense.
ReversesOlder ==
    /\ calls' = calls + 1
    /\ lastOp'.name \in {"delete_transaction", "update_transaction"}
    /\ transactions[lastOp'.tx].bill = "rent"
    /\ transactions[lastOp'.tx].date <
          AddMonths(upcoming["rent"].due_date, -1)
    /\ lastOp'.name = "update_transaction" =>
          transactions'[lastOp'.tx].bill = "none"

\* C31: when a reversed or edited transaction linked to a planned
\* expense is dated before the expense's due_date minus one month, the
\* expense keeps its paid_flag, its due_date and its is_recurring.
C31_OlderReversalKeepsExpense ==
    [][ReversesOlder
       => /\ upcoming'["rent"].paid_flag = upcoming["rent"].paid_flag
          /\ upcoming'["rent"].due_date = upcoming["rent"].due_date
          /\ upcoming'["rent"].is_recurring =
                upcoming["rent"].is_recurring]_vars

\* The expense rent after add_transaction of data as the next
\* transaction and delete_transaction of that transaction.
PaidThenReversed(data) ==
    LET paid == atomic(Database,
                       add_transaction(Database, next_entry_id, data))
        reversed == atomic(paid, delete_transaction(paid, next_entry_id))
    IN [ok |-> paid.ok /\ reversed.ok, rent |-> reversed.upcoming["rent"]]

\* C32: for a transaction dated on the due date of an unpaid planned
\* expense, the payment transition followed by the reversal of that
\* transaction leaves paid_flag, due_date and is_recurring as they were
\* before the payment, for a recurring and for a non-recurring expense,
\* with or without an end_date.
C32_PayThenReverseRestores ==
    \A data \in BillTxData :
       (/\ next_entry_id <= MaxTx
        /\ data.bill = "rent"
        /\ data.date = upcoming["rent"].due_date
        /\ ~upcoming["rent"].paid_flag
        /\ PaidThenReversed(data).ok)
       => /\ ~PaidThenReversed(data).rent.paid_flag
          /\ PaidThenReversed(data).rent.due_date = upcoming["rent"].due_date
          /\ PaidThenReversed(data).rent.is_recurring =
                upcoming["rent"].is_recurring

\* C33: after every completed operation each stored transaction's
\* amount has the sign of its type: zero or negative for EXPENSE and
\* XFER_OUT, zero or positive for INCOME and XFER_IN.  The sign flip
\* the reversal stores does not outlast an update_transaction.
C33_StoredAmountHasSignOfType ==
    \A i \in TxIds :
       transactions[i] # NoTx
       => /\ transactions[i].tx_type \in {"EXPENSE", "XFER_OUT"}
               => transactions[i].amount <= 0
          /\ transactions[i].tx_type \in {"INCOME", "XFER_IN"}
               => transactions[i].amount >= 0

\* An update_transaction of a stored expense, whose reversal stored a
\* positive amount, has completed and the transaction is an expense
\* with a negative amount.
C33_Witness ==
    /\ lastOp.name = "update_transaction"
    /\ lastOp.ok
    /\ lastOp.old.tx_type = "EXPENSE"
    /\ lastOp.old.amount < 0
    /\ transactions[lastOp.tx].tx_type = "EXPENSE"
    /\ transactions[lastOp.tx].amount < 0

\* The database after the items of accepted have been posted alone, one
\* add_transaction each, from the entry first on.
RECURSIVE PostedAlone(_, _, _)
PostedAlone(db, first, accepted) ==
    IF accepted = << >> THEN db
    ELSE PostedAlone(add_transaction(db, first, Head(accepted)),
                     first + 1, Tail(accepted))

OneUnknownAccount ==
    /\ "unknown" \in DOMAIN sources
    /\ \A s \in DOMAIN sources : sources[s] = "UNKNOWN" <=> s = "unknown"

\* This step is a request to add an account named unknown or of type
\* UNKNOWN, to rename or retype an account to it, to update it or to
\* delete it.
AimsAtUnknown ==
    /\ calls' = calls + 1
    /\ \/ /\ lastOp'.name = "source_view_post"
          /\ \/ lastOp'.args[1].source = "unknown"
             \/ lastOp'.args[1].acc_type = "UNKNOWN"
       \/ /\ lastOp'.name = "source_view_put"
          /\ \/ lastOp'.args[1] = "unknown"
             \/ lastOp'.args[2].source = "unknown"
             \/ lastOp'.args[2].acc_type = "UNKNOWN"
       \/ /\ lastOp'.name = "source_view_delete"
          /\ lastOp'.args[1] = "unknown"

====
